---------------------------- MODULE Spec2Model ----------------------------
(***************************************************************************)
(* Model of the numerical core of the gyrase homology-modelling scripts:   *)
(*   - global pairwise alignment (scripts/generate_alignment.py            *)
(*     simple_align, scripts/setup_gyrase_model.py needleman_wunsch),      *)
(*   - the identity routines and the residue mapping built on aligned rows *)
(*     (calculate_identity x2, check_binding_conservation.py),             *)
(*   - the interface contact scans (scripts/generate_constraints.py).      *)
(* Sequences are TLA+ sequences of one-character strings; a Python list    *)
(* indexed from 0 is a TLA+ sequence indexed from 1.                       *)
(***************************************************************************)
EXTENDS Integers, Sequences, FiniteSets, TLC

VARIABLES
    pc,         \* position of the driver: "start", "aligned", "identity_*", "mapped", "run1", ...
    fn,         \* the routine that produced the current result
    seq1, seq2, \* arguments of the aligner
    match, mismatch, gap,   \* scoring parameters in force during the call
    score,      \* the filled scoring matrix (local `score` of the aligner)
    aligned1, aligned2,     \* the two rows returned by the aligner / read from a file
    raised,     \* name of the exception the last call raised, "none" otherwise
    identity,   \* value returned by the identity routine, as a fraction num/den
    mapping,    \* dict returned by align_residue_mapping
    calls,      \* log of completed aligner calls: routine, arguments, rows
    coords,     \* read_pdb_coordinates' dict: chain -> residue -> atom -> (x, y, z)
    distance_cutoff,        \* the --distance argument of the current run
    contacts,   \* list returned by find_interface_contacts
    interface_constraints,  \* list returned by generate_interface_constraints
    earlier,    \* cutoff and the two lists of the run before, on the same coords
    interface,  \* the two residue lists returned by identify_interface_residues
    type, tolerance,        \* the --type and --tolerance arguments of the current run
    all_constraints,        \* the lines main hands to write_constraint_file
    P, Q,       \* the mobile and the reference array of CA coordinates
    R, tvec,    \* the rotation R and the translation t a fit returned
    rmsd,       \* the number calculate_rmsd returned
    pdb_lines,  \* the records of the model file handed to apply_transform
    transformed,    \* the list apply_transform returned
    threads,    \* the call each thread of a concurrent run is in: its frame
    tb          \* the traceback loop of the aligner: its i, j and iterations made

alignerVars == <<fn, seq1, seq2, match, mismatch, gap, score, aligned1, aligned2,
                 raised, identity, mapping, calls>>
contactVars == <<coords, distance_cutoff, contacts, interface_constraints, earlier,
                 interface, type, tolerance, all_constraints>>
\* the aligner's variables but raised, which any routine sets
alignerKept == <<fn, seq1, seq2, match, mismatch, gap, score, aligned1, aligned2,
                 identity, mapping, calls>>
fitVars == <<P, Q, R, tvec, rmsd, pdb_lines, transformed>>
threadVars == <<threads>>
loopVars == <<tb>>
vars == <<pc, alignerVars, contactVars, fitVars, threadVars, loopVars>>

----------------------------------------------------------------------------
(* Bounds of the model *)

\* longest sequence handed to the aligner
MaxLen == 3
\* longest aligned row read from an alignment file
MaxRowLen == 3
\* most residues in one chain of a structure
MaxRes == 2
\* number of aligner calls in one run of the call log
MaxCalls == 3
\* most CA atoms in an array handed to a fit
MaxPoints == 4
\* number of threads making a call at the same time
MaxThreads == 2

----------------------------------------------------------------------------
(* Symbols *)

GAP == "-"
Residues == {"A", "C"}
RowSymbols == Residues \cup {GAP}

SeqsUpTo(S, k) == UNION {[1..l -> S] : l \in 0..k}

Max2(a, b) == IF a >= b THEN a ELSE b
\* Python's max(a, b, c)
Max3(a, b, c) == Max2(Max2(a, b), c)

\* Python's reversed(list)
Reverse(s) == [k \in 1..Len(s) |-> s[Len(s) + 1 - k]]

\* Python's list[k] for a 0-based index k: a negative k counts from the end
PyIdx(s, k) == IF k >= 0 THEN s[k + 1] ELSE s[Len(s) + k + 1]
\* list[k] raises IndexError outside -len..len-1
PyValid(s, k) == (0 - Len(s)) <= k /\ k < Len(s)

\* what a call hands back: the rows it returns, or the exception it raises
Returned(r1, r2) == [raised |-> "none", rows |-> <<r1, r2>>]
Raised(e) == [raised |-> e, rows |-> <<<<>>, <<>>>>]
\* the same with the call's local matrix kept beside it, for inspection
WithMatrix(res, sc) == [raised |-> res.raised, rows |-> res.rows, score |-> sc]

\* Python's str.replace('-', '')
RECURSIVE Ungap(_)
Ungap(row) ==
    IF row = <<>> THEN <<>>
    ELSE IF Head(row) = GAP THEN Ungap(Tail(row))
         ELSE <<Head(row)>> \o Ungap(Tail(row))

----------------------------------------------------------------------------
(* scripts/setup_gyrase_model.py: needleman_wunsch                          *)
(* The matrix is a list of m+1 rows of n+1 cells; cell [i][j] of the code   *)
(* is PyIdx(PyIdx(sc, i), j).                                               *)

Cell(sc, i, j) == PyIdx(PyIdx(sc, i), j)

\* lines 69-73: zero matrix, then first column i*gap and first row j*gap
NW_InitMatrix(m, n, g) ==
    [i \in 1..(m + 1) |->
        [j \in 1..(n + 1) |->
            IF i = 1 THEN (j - 1) * g
            ELSE IF j = 1 THEN (i - 1) * g
            ELSE 0]]

\* lines 78-81 with the insert candidate left out of the max
NW_CellValue_noInsert(sc, s1, s2, i, j, ma, mi, g) ==
    LET match_score == Cell(sc, i - 1, j - 1)
                        + (IF PyIdx(s1, i - 1) = PyIdx(s2, j - 1) THEN ma ELSE mi)
        delete == Cell(sc, i - 1, j) + g
    IN  Max2(match_score, delete)

\* lines 78-81: the value stored in score[i][j]
NW_CellValue(sc, s1, s2, i, j, ma, mi, g) ==
    LET match_score == Cell(sc, i - 1, j - 1)
                        + (IF PyIdx(s1, i - 1) = PyIdx(s2, j - 1) THEN ma ELSE mi)
        delete == Cell(sc, i - 1, j) + g
        insert == Cell(sc, i, j - 1) + g
    IN  Max3(match_score, delete, insert)

\* lines 76-81: the two nested loops, row by row, from cell (i, j) on
RECURSIVE NW_Fill(_, _, _, _, _, _, _, _)
NW_Fill(sc, s1, s2, i, j, ma, mi, g) ==
    IF i > Len(s1) THEN sc
    ELSE IF j > Len(s2) THEN NW_Fill(sc, s1, s2, i + 1, 1, ma, mi, g)
    ELSE NW_Fill([sc EXCEPT ![i + 1][j + 1] =
                        NW_CellValue(sc, s1, s2, i, j, ma, mi, g)],
                 s1, s2, i, j + 1, ma, mi, g)

\* lines 66-81: the filled matrix
NW_Score(s1, s2, ma, mi, g) ==
    NW_Fill(NW_InitMatrix(Len(s1), Len(s2), g), s1, s2, 1, 1, ma, mi, g)

\* line 107 with the gaps of the first list left out of the joined string
NW_Return_gapsDropped(a1, a2) == Returned(Reverse(Ungap(a1)), Reverse(a2))

\* line 107 without the reversal
NW_Return_noReverse(a1, a2) == Returned(a1, a2)

\* line 107: ''.join(reversed(aligned1)), ''.join(reversed(aligned2))
NW_Return(a1, a2) == Returned(Reverse(a1), Reverse(a2))

\* line 98 tested only inside the matrix: i > 0 and j > 0 and ...
NW_TakeUp_innerOnly(sc, i, j, g) ==
    i > 0 /\ j > 0 /\ Cell(sc, i, j) = Cell(sc, i - 1, j) + g

\* line 98 with the left move preferred when both moves reproduce the cell
NW_TakeUp_unlessLeft(sc, i, j, g) ==
    /\ i > 0
    /\ Cell(sc, i, j) = Cell(sc, i - 1, j) + g
    /\ ~(j > 0 /\ Cell(sc, i, j) = Cell(sc, i, j - 1) + g)

\* line 98 with the test that the up move reproduces the cell left out
NW_TakeUp_unchecked(sc, i, j, g) == i > 0

\* line 98: i > 0 and score[i][j] == score[i-1][j] + gap
NW_TakeUp(sc, i, j, g) == i > 0 /\ Cell(sc, i, j) = Cell(sc, i - 1, j) + g

\* lines 88-91: i > 0 and j > 0 and current == diag
NW_TakeDiag(sc, s1, s2, i, j, ma, mi) ==
    /\ i > 0
    /\ j > 0
    /\ Cell(sc, i, j) = Cell(sc, i - 1, j - 1)
                        + (IF PyIdx(s1, i - 1) = PyIdx(s2, j - 1) THEN ma ELSE mi)

\* lines 87-105: the traceback loop from (i, j) with the rows emitted so far
RECURSIVE NW_Traceback(_, _, _, _, _, _, _, _, _, _)
NW_Traceback(sc, s1, s2, i, j, ma, mi, g, a1, a2) ==
    IF ~(i > 0 \/ j > 0) THEN NW_Return(a1, a2)
    ELSE IF NW_TakeDiag(sc, s1, s2, i, j, ma, mi)
         THEN NW_Traceback(sc, s1, s2, i - 1, j - 1, ma, mi, g,
                           Append(a1, PyIdx(s1, i - 1)), Append(a2, PyIdx(s2, j - 1)))
    ELSE IF NW_TakeUp(sc, i, j, g)
         THEN NW_Traceback(sc, s1, s2, i - 1, j, ma, mi, g,
                           Append(a1, PyIdx(s1, i - 1)), Append(a2, GAP))
    ELSE IF ~PyValid(s2, j - 1) THEN Raised("IndexError")
    ELSE NW_Traceback(sc, s1, s2, i, j - 1, ma, mi, g,
                      Append(a1, GAP), Append(a2, PyIdx(s2, j - 1)))

\* line 84 with the two lists kept from the call before
NW_TracebackStart_kept == <<Reverse(aligned1), Reverse(aligned2)>>

\* line 84: aligned1, aligned2 = [], []
NW_TracebackStart == <<<<>>, <<>>>>

\* lines 64-107: the pair of aligned rows, or the exception
needleman_wunsch(s1, s2, ma, mi, g) ==
    LET sc == NW_Score(s1, s2, ma, mi, g)
    IN  WithMatrix(NW_Traceback(sc, s1, s2, Len(s1), Len(s2), ma, mi, g,
                                NW_TracebackStart[1], NW_TracebackStart[2]),
                   sc)

\* line 64: the default arguments match=2, mismatch=-1, gap=-2
NW_default_match == 2
NW_default_mismatch == -1
NW_default_gap == -2

----------------------------------------------------------------------------
(* scripts/generate_alignment.py: simple_align                              *)

\* lines 52-54: the scoring parameters fixed inside simple_align
SA_match_score == 2
SA_mismatch_score == -1
SA_gap_penalty == -2

\* lines 59-65: zero matrix, then first column and first row
SA_InitMatrix(m, n) ==
    [i \in 1..(m + 1) |->
        [j \in 1..(n + 1) |->
            IF i = 1 THEN (j - 1) * SA_gap_penalty
            ELSE IF j = 1 THEN (i - 1) * SA_gap_penalty
            ELSE 0]]

\* lines 70-73 with the mismatch score given to every pair of residues
SA_CellValue_allMismatch(sc, s1, s2, i, j) ==
    LET matchv == Cell(sc, i - 1, j - 1) + SA_mismatch_score
        delete == Cell(sc, i - 1, j) + SA_gap_penalty
        insert == Cell(sc, i, j - 1) + SA_gap_penalty
    IN  Max3(matchv, delete, insert)

\* lines 70-73: the value stored in score[i][j]
SA_CellValue(sc, s1, s2, i, j) ==
    LET matchv == Cell(sc, i - 1, j - 1)
                   + (IF PyIdx(s1, i - 1) = PyIdx(s2, j - 1)
                      THEN SA_match_score ELSE SA_mismatch_score)
        delete == Cell(sc, i - 1, j) + SA_gap_penalty
        insert == Cell(sc, i, j - 1) + SA_gap_penalty
    IN  Max3(matchv, delete, insert)

\* lines 68-73: the two nested loops, row by row, from cell (i, j) on
RECURSIVE SA_Fill(_, _, _, _, _)
SA_Fill(sc, s1, s2, i, j) ==
    IF i > Len(s1) THEN sc
    ELSE IF j > Len(s2) THEN SA_Fill(sc, s1, s2, i + 1, 1)
    ELSE SA_Fill([sc EXCEPT ![i + 1][j + 1] = SA_CellValue(sc, s1, s2, i, j)],
                 s1, s2, i, j + 1)

\* lines 56-73: the filled matrix
SA_Score(s1, s2) == SA_Fill(SA_InitMatrix(Len(s1), Len(s2)), s1, s2, 1, 1)

\* lines 84-87: expected_diagonal
SA_ExpectedDiagonal(sc, s1, s2, i, j) ==
    LET diagonal == Cell(sc, i - 1, j - 1)
    IN  IF PyIdx(s1, i - 1) = PyIdx(s2, j - 1)
        THEN diagonal + SA_match_score
        ELSE diagonal + SA_mismatch_score

\* lines 79-105: the traceback loop from (i, j) with the rows emitted so far
RECURSIVE SA_Traceback(_, _, _, _, _, _, _)
SA_Traceback(sc, s1, s2, i, j, a1, a2) ==
    IF ~(i > 0 \/ j > 0) THEN Returned(Reverse(a1), Reverse(a2))
    ELSE IF i > 0 /\ j > 0 /\ Cell(sc, i, j) = SA_ExpectedDiagonal(sc, s1, s2, i, j)
         THEN SA_Traceback(sc, s1, s2, i - 1, j - 1,
                           Append(a1, PyIdx(s1, i - 1)), Append(a2, PyIdx(s2, j - 1)))
    ELSE IF i > 0 /\ Cell(sc, i, j) = Cell(sc, i - 1, j) + SA_gap_penalty
         THEN SA_Traceback(sc, s1, s2, i - 1, j,
                           Append(a1, PyIdx(s1, i - 1)), Append(a2, GAP))
    ELSE IF ~PyValid(s2, j - 1) THEN Raised("IndexError")
    ELSE SA_Traceback(sc, s1, s2, i, j - 1,
                      Append(a1, GAP), Append(a2, PyIdx(s2, j - 1)))

\* lines 44-105: the pair of aligned rows, or the exception
simple_align(s1, s2) ==
    LET sc == SA_Score(s1, s2)
    IN  WithMatrix(SA_Traceback(sc, s1, s2, Len(s1), Len(s2), <<>>, <<>>), sc)

----------------------------------------------------------------------------
(* The identity routines.  A Python float matches / length * 100 is kept   *)
(* as the exact fraction num/den; two fractions are compared by            *)
(* cross-multiplication.                                                   *)

Frac(n, d) == [num |-> n, den |-> d]
FracEq(a, b) == a.num * b.den = b.num * a.den
Zero == Frac(0, 1)

Min2(a, b) == IF a <= b THEN a ELSE b

\* Python's zip(aligned1, aligned2): the columns up to the shorter row
ZipCols(r1, r2) == 1..Min2(Len(r1), Len(r2))

\* the same sum with the test a != '-' left out
Matches_gapsCount(r1, r2) == Cardinality({k \in ZipCols(r1, r2) : r1[k] = r2[k]})

\* sum(1 for a, b in zip(aligned1, aligned2) if a == b and a != '-')
Matches(r1, r2) == Cardinality({k \in ZipCols(r1, r2) : r1[k] = r2[k] /\ r1[k] # GAP})

\* lines 180-184 with the columns holding two residues as the length
GA_calculate_identity_pairedColumns(r1, r2) ==
    LET matches == Matches(r1, r2)
        length == Cardinality({k \in ZipCols(r1, r2) : r1[k] # GAP /\ r2[k] # GAP})
    IN  IF length > 0 THEN Frac(matches * 100, length) ELSE Zero

\* scripts/generate_alignment.py lines 180-184
GA_calculate_identity(r1, r2) ==
    LET matches == Matches(r1, r2)
        length == Max2(Len(Ungap(r1)), Len(Ungap(r2)))
    IN  IF length > 0 THEN Frac(matches * 100, length) ELSE Zero

\* scripts/setup_gyrase_model.py lines 109-113
SG_calculate_identity(r1, r2) ==
    LET matches == Matches(r1, r2)
        length == Len(Ungap(r1))
    IN  IF length > 0 THEN Frac(matches * 100, length) ELSE Zero

\* scripts/check_binding_conservation.py lines 228-230
CBC_identity(r1, r2) ==
    LET matches == Matches(r1, r2)
        total == Cardinality({k \in ZipCols(r1, r2) : r1[k] # GAP /\ r2[k] # GAP})
    IN  IF total > 0 THEN Frac(matches * 100, total) ELSE Zero

----------------------------------------------------------------------------
(* scripts/check_binding_conservation.py: align_residue_mapping             *)
(* The dict is a function from its keys (target positions) to the entries.  *)

EmptyDict == <<>>

\* before a call the aligner's local matrix does not exist
NoMatrix == <<>>

\* lines 40-41: a column past the end of a row reads as a gap
ARM_Char(row, i) == IF i < Len(row) THEN PyIdx(row, i) ELSE GAP

\* lines 43-44 and 45-46 with the test inverted: the counter moves on a gap
ARM_Advance_onGap(pos, char) == IF char = GAP THEN pos + 1 ELSE pos

\* lines 43-44 and 45-46 with the counter following the column index
ARM_Advance_everyColumn(pos, char) == pos + 1

\* lines 43-44 and 45-46: a position counter moves on a residue only
ARM_Advance(pos, char) == IF char # GAP THEN pos + 1 ELSE pos

\* lines 39-53: the loop body for columns i, i+1, ... of the target row
RECURSIVE ARM_Loop(_, _, _, _, _, _)
ARM_Loop(target_seq, template_seq, i, target_pos, template_pos, map) ==
    IF i >= Len(target_seq) THEN map
    ELSE LET target_char == ARM_Char(target_seq, i)
             template_char == ARM_Char(template_seq, i)
             tp == ARM_Advance(target_pos, target_char)
             sp == ARM_Advance(template_pos, template_char)
             entry == [target_res |-> target_char,
                       template_res |-> template_char,
                       template_pos |-> sp]
         IN  ARM_Loop(target_seq, template_seq, i + 1, tp, sp,
                      IF target_char # GAP /\ template_char # GAP
                      THEN (tp :> entry) @@ map
                      ELSE map)

\* lines 29-55
align_residue_mapping(target_seq, template_seq) ==
    ARM_Loop(target_seq, template_seq, 0, 0, 0, EmptyDict)

----------------------------------------------------------------------------
(* scripts/generate_constraints.py                                          *)
(* coords is kept in the order the dicts are filled and iterated: a list   *)
(* of chains, each a list of residues, each a list of atoms.  The float    *)
(* math.sqrt(q) of a sum of squares q is kept as the exact root of q.      *)

Root(q) == [root_of |-> q]

\* lines 48-51: math.sqrt(sum((a - b) ** 2 for a, b in zip(coord1, coord2)))
calculate_distance(coord1, coord2) ==
    Root((coord1[1] - coord2[1]) * (coord1[1] - coord2[1])
         + (coord1[2] - coord2[2]) * (coord1[2] - coord2[2])
         + (coord1[3] - coord2[3]) * (coord1[3] - coord2[3]))

\* the comparison turned round: dist > c
DistLess_reversed(dist, c) == c < 0 \/ dist.root_of > c * c

\* the comparison made inclusive: dist <= c
DistLess_orEqual(dist, c) == c >= 0 /\ dist.root_of <= c * c

\* dist < c for a root dist and a number c (lines 83, 168, 170)
DistLess(dist, c) == c > 0 /\ dist.root_of < c * c

\* lines 73, 78: only backbone and CB atoms are used
BackboneAndCB == {"CA", "CB", "N", "C", "O"}

\* line 53: distance_cutoff: float = 8.0
DefaultCutoff == 8

\* the atoms of a chain in the order the two nested loops visit them
RECURSIVE AtomsFrom(_, _, _)
AtomsFrom(residues, r, a) ==
    IF r > Len(residues) THEN <<>>
    ELSE IF a > Len(residues[r].atoms) THEN AtomsFrom(residues, r + 1, 1)
    ELSE <<[res |-> residues[r].res,
            atom |-> residues[r].atoms[a].name,
            xyz |-> residues[r].atoms[a].xyz]>>
         \o AtomsFrom(residues, r, a + 1)

\* the inner loops without the filter of line 78
RECURSIVE FIC_Inner_unfiltered(_, _, _, _, _, _)
FIC_Inner_unfiltered(chain_a, chain_b, one, atoms_b, k, cutoff) ==
    IF k > Len(atoms_b) THEN <<>>
    ELSE LET two == atoms_b[k]
             dist == calculate_distance(one.xyz, two.xyz)
             rest == FIC_Inner_unfiltered(chain_a, chain_b, one, atoms_b, k + 1, cutoff)
         IN  IF DistLess(dist, cutoff)
             THEN <<[chain1 |-> chain_a, res1 |-> one.res, atom1 |-> one.atom,
                     chain2 |-> chain_b, res2 |-> two.res, atom2 |-> two.atom,
                     distance |-> dist]>> \o rest
             ELSE rest

\* lines 76-92: the inner loops over chain_b for one atom of chain_a
RECURSIVE FIC_Inner(_, _, _, _, _, _)
FIC_Inner(chain_a, chain_b, one, atoms_b, k, cutoff) ==
    IF k > Len(atoms_b) THEN <<>>
    ELSE LET two == atoms_b[k]
             dist == calculate_distance(one.xyz, two.xyz)
             rest == FIC_Inner(chain_a, chain_b, one, atoms_b, k + 1, cutoff)
         IN  IF two.atom \notin BackboneAndCB THEN rest
             ELSE IF DistLess(dist, cutoff)
                  THEN <<[chain1 |-> chain_a, res1 |-> one.res, atom1 |-> one.atom,
                          chain2 |-> chain_b, res2 |-> two.res, atom2 |-> two.atom,
                          distance |-> dist]>> \o rest
                  ELSE rest

\* the outer loops without the filter of line 73
RECURSIVE FIC_Outer_unfiltered(_, _, _, _, _, _)
FIC_Outer_unfiltered(chain_a, chain_b, atoms_a, atoms_b, k, cutoff) ==
    IF k > Len(atoms_a) THEN <<>>
    ELSE FIC_Inner(chain_a, chain_b, atoms_a[k], atoms_b, 1, cutoff)
         \o FIC_Outer_unfiltered(chain_a, chain_b, atoms_a, atoms_b, k + 1, cutoff)

\* lines 70-92: the outer loops over chain_a
RECURSIVE FIC_Outer(_, _, _, _, _, _)
FIC_Outer(chain_a, chain_b, atoms_a, atoms_b, k, cutoff) ==
    IF k > Len(atoms_a) THEN <<>>
    ELSE LET rest == FIC_Outer(chain_a, chain_b, atoms_a, atoms_b, k + 1, cutoff)
         IN  IF atoms_a[k].atom \notin BackboneAndCB THEN rest
             ELSE FIC_Inner(chain_a, chain_b, atoms_a[k], atoms_b, 1, cutoff) \o rest

\* lines 53-94
find_interface_contacts(crd, cutoff) ==
    IF Len(crd) < 2 THEN <<>>
    ELSE FIC_Outer(crd[1].chain, crd[2].chain,
                   AtomsFrom(crd[1].residues, 1, 1),
                   AtomsFrom(crd[2].residues, 1, 1), 1, cutoff)

\* 'CA' in coords[chain][res] (lines 156, 160)
HasCA(residue) == \E a \in 1..Len(residue.atoms) : residue.atoms[a].name = "CA"
\* coords[chain][res]['CA'] (lines 164-165)
CAOf(residue) ==
    residue.atoms[CHOOSE a \in 1..Len(residue.atoms) : residue.atoms[a].name = "CA"].xyz

\* floor of the square root of n, by bisection between lo and hi
RECURSIVE ISqrtIn(_, _, _)
ISqrtIn(n, lo, hi) ==
    IF lo >= hi THEN lo
    ELSE LET mid == (lo + hi + 1) \div 2
         IN  IF mid * mid <= n THEN ISqrtIn(n, mid, hi) ELSE ISqrtIn(n, lo, mid - 1)
\* a power of two whose square exceeds n
RECURSIVE ISqrtBound(_, _)
ISqrtBound(n, h) == IF h * h > n THEN h ELSE ISqrtBound(n, 2 * h)
ISqrt(n) == ISqrtIn(n, 0, ISqrtBound(n, 1))

\* the root cut off after the hundredths instead of rounded
Format2_truncated(dist) == ISqrt(10000 * dist.root_of)

\* f"{dist:.2f}": the root rounded to hundredths, as a number of hundredths
Format2(dist) == (ISqrt(40000 * dist.root_of) + 1) \div 2

\* line 170: the close band ends at 5.0
NearThreshold == 5
\* line 170 with the close band made to hold the threshold itself
StdevFor_inclusive(dist) == IF DistLess_orEqual(dist, NearThreshold) THEN 100 ELSE 200
\* line 170: stdev = 1.0 if dist < 5.0 else 2.0, in hundredths as f"{stdev:.2f}"
StdevFor(dist) == IF DistLess(dist, NearThreshold) THEN 100 ELSE 200

\* lines 159-175: the inner loop over chain_b for one residue of chain_a
RECURSIVE GIC_Inner(_, _, _, _)
GIC_Inner(one, residues_b, k, cutoff) ==
    IF k > Len(residues_b) THEN <<>>
    ELSE LET rest == GIC_Inner(one, residues_b, k + 1, cutoff)
         IN  IF ~HasCA(residues_b[k]) THEN rest
             ELSE LET dist == calculate_distance(CAOf(one), CAOf(residues_b[k]))
                  IN  IF DistLess(dist, cutoff)
                      THEN <<[atom1 |-> "CA", res1 |-> one.res,
                              atom2 |-> "CA", res2 |-> residues_b[k].res,
                              func |-> "HARMONIC",
                              x0 |-> Format2(dist), sd |-> StdevFor(dist)]>> \o rest
                      ELSE rest

\* lines 155-175: the outer loop over chain_a
RECURSIVE GIC_Outer(_, _, _, _)
GIC_Outer(residues_a, residues_b, k, cutoff) ==
    IF k > Len(residues_a) THEN <<>>
    ELSE LET rest == GIC_Outer(residues_a, residues_b, k + 1, cutoff)
         IN  IF ~HasCA(residues_a[k]) THEN rest
             ELSE GIC_Inner(residues_a[k], residues_b, 1, cutoff) \o rest

\* lines 141-177; a constraint line is kept as its fields
generate_interface_constraints(crd, cutoff) ==
    IF Len(crd) < 2 THEN <<>>
    ELSE GIC_Outer(crd[1].residues, crd[2].residues, 1, cutoff)

----------------------------------------------------------------------------
(* scripts/analyze_models.py: identify_interface_residues                   *)

\* lines 89-105: the (res_num, x, y, z) of the CA atoms of the chain named id
CAAtoms(crd, id) ==
    LET found == {c \in 1..Len(crd) : crd[c].chain = id}
    IN  IF found = {} THEN <<>>
        ELSE LET all == AtomsFrom(crd[CHOOSE c \in found : TRUE].residues, 1, 1)
                 IsCA(x) == x.atom = "CA"
             IN  SelectSeq(all, IsCA)

\* Python's sorted(set of ints)
RECURSIVE Sorted(_)
Sorted(S) ==
    IF S = {} THEN <<>>
    ELSE LET least == CHOOSE x \in S : \A y \in S : x <= y
         IN  <<least>> \o Sorted(S \ {least})

\* lines 107-118
identify_interface_residues(crd, cutoff) ==
    LET chain_a_atoms == CAAtoms(crd, "A")
        chain_b_atoms == CAAtoms(crd, "B")
        close == {p \in (1..Len(chain_a_atoms)) \X (1..Len(chain_b_atoms)) :
                    DistLess(calculate_distance(chain_a_atoms[p[1]].xyz,
                                                chain_b_atoms[p[2]].xyz), cutoff)}
    IN  [a |-> Sorted({chain_a_atoms[p[1]].res : p \in close}),
         b |-> Sorted({chain_b_atoms[p[2]].res : p \in close})]

\* f"{x:.2f}" of a whole number x, as a number of hundredths
Format2Whole(x) == 100 * x

\* lines 96-119: one BOUNDED line per contact,
\* max(0, dist - tolerance) and dist + tolerance to two decimals, 0.5 NOE
generate_distance_constraints(cts, tol) ==
    [k \in 1..Len(cts) |->
        [atom1 |-> cts[k].atom1, res1 |-> cts[k].res1,
         atom2 |-> cts[k].atom2, res2 |-> cts[k].res2,
         func |-> "BOUNDED",
         lb |-> Max2(0, Format2(cts[k].distance) - Format2Whole(tol)),
         ub |-> Format2(cts[k].distance) + Format2Whole(tol),
         sd |-> 50, tag |-> "NOE"]]

\* lines 121-139: one HARMONIC line per contact, the distance and stdev to
\* two decimals
generate_harmonic_constraints(cts, stdev) ==
    [k \in 1..Len(cts) |->
        [atom1 |-> cts[k].atom1, res1 |-> cts[k].res1,
         atom2 |-> cts[k].atom2, res2 |-> cts[k].res2,
         func |-> "HARMONIC",
         x0 |-> Format2(cts[k].distance), sd |-> Format2Whole(stdev)]]

\* lines 198-201: the defaults of --tolerance and --type
DefaultTolerance == 2
DefaultType == "harmonic"

\* lines 216-219: the lines made of the contacts, by --type
ConstraintsOf(cts, ty, tol) ==
    IF ty = "harmonic" THEN generate_harmonic_constraints(cts, tol)
    ELSE generate_distance_constraints(cts, tol)

\* line 225: list(set(constraints + interface_constraints)): the lines that
\* differ as text, each once; the order of a set of strings is the hash
\* table's, so the list is kept as the set of its lines
Deduplicated(constraints, interface_lines) ==
    {constraints[k] : k \in 1..Len(constraints)}
        \cup {interface_lines[k] : k \in 1..Len(interface_lines)}

\* lines 53-94, 141-177 and 79-118 of analyze_models hold no check of
\* distance_cutoff and no raise statement: a scan of parsed coordinates ends
\* by returning its lists, whatever the cutoff
ScanRaises(cutoff) == "none"

\* nothing run yet
NoRun == [distance_cutoff |-> DefaultCutoff, contacts |-> <<>>,
          interface_constraints |-> <<>>]
NoInterface == [a |-> <<>>, b |-> <<>>]

ContactsIdle ==
    /\ coords = <<>>
    /\ distance_cutoff = DefaultCutoff
    /\ contacts = <<>>
    /\ interface_constraints = <<>>
    /\ earlier = NoRun
    /\ interface = NoInterface
    /\ type = DefaultType
    /\ tolerance = DefaultTolerance
    /\ all_constraints = {}

----------------------------------------------------------------------------
(* scripts/structural_alignment.py, scripts/assemble_tetramer.py:          *)
(* numpy arrays of points in exact arithmetic                              *)

\* A float array of shape (n, 3) is kept as the integer rows of its points
\* over one common denominator; np.array([]) of shape (0,) has no row.
Array(d, points) == [den |-> d, rows |-> points]
NoPoints == Array(1, <<>>)

Abs(x) == IF x < 0 THEN -x ELSE x

Dot(u, v) == u[1] * v[1] + u[2] * v[2] + u[3] * v[3]
Cross(u, v) == <<u[2] * v[3] - u[3] * v[2],
                 u[3] * v[1] - u[1] * v[3],
                 u[1] * v[2] - u[2] * v[1]>>
VecAdd(u, v) == <<u[1] + v[1], u[2] + v[2], u[3] + v[3]>>
VecSub(u, v) == <<u[1] - v[1], u[2] - v[2], u[3] - v[3]>>
VecScale(k, u) == <<k * u[1], k * u[2], k * u[3]>>
ZeroVec == <<0, 0, 0>>

\* 3 x 3 matrices are triples of rows
Column(m, c) == <<m[1][c], m[2][c], m[3][c]>>
Transpose(m) == <<Column(m, 1), Column(m, 2), Column(m, 3)>>
MatVec(m, v) == <<Dot(m[1], v), Dot(m[2], v), Dot(m[3], v)>>
MatMul(a, b) ==
    <<<<Dot(a[1], Column(b, 1)), Dot(a[1], Column(b, 2)), Dot(a[1], Column(b, 3))>>,
      <<Dot(a[2], Column(b, 1)), Dot(a[2], Column(b, 2)), Dot(a[2], Column(b, 3))>>,
      <<Dot(a[3], Column(b, 1)), Dot(a[3], Column(b, 2)), Dot(a[3], Column(b, 3))>>>>
Det(m) == Dot(m[1], Cross(m[2], m[3]))
Identity3 == <<<<1, 0, 0>>, <<0, 1, 0>>, <<0, 0, 1>>>>

\* the sum of the rows k.. of a list of points
RECURSIVE SumFrom(_, _)
SumFrom(points, k) ==
    IF k > Len(points) THEN ZeroVec ELSE VecAdd(points[k], SumFrom(points, k + 1))

\* the two arrays added instead: a + b
NP_Subtract_added(a, b) ==
    LET n == Len(a.rows)
        m == Len(b.rows)
        row(i) == VecAdd(VecScale(b.den, a.rows[IF n = 1 THEN 1 ELSE i]),
                         VecScale(a.den, b.rows[IF m = 1 THEN 1 ELSE i]))
    IN  IF n = 0 /\ m = 0 THEN [raised |-> "none", value |-> NoPoints]
        ELSE IF n = 0 \/ m = 0 THEN [raised |-> "ValueError", value |-> NoPoints]
        ELSE IF n = m \/ n = 1 \/ m = 1
             THEN [raised |-> "none",
                   value |-> Array(a.den * b.den, [i \in 1..Max2(n, m) |-> row(i)])]
        ELSE [raised |-> "ValueError", value |-> NoPoints]

\* a - b for two arrays, under numpy's broadcasting: shapes (n, 3) and (m, 3)
\* go together when n = m or one of them is 1; (0,) goes with nothing but (0,)
NP_Subtract(a, b) ==
    LET n == Len(a.rows)
        m == Len(b.rows)
        row(i) == VecSub(VecScale(b.den, a.rows[IF n = 1 THEN 1 ELSE i]),
                         VecScale(a.den, b.rows[IF m = 1 THEN 1 ELSE i]))
    IN  IF n = 0 /\ m = 0 THEN [raised |-> "none", value |-> NoPoints]
        ELSE IF n = 0 \/ m = 0 THEN [raised |-> "ValueError", value |-> NoPoints]
        ELSE IF n = m \/ n = 1 \/ m = 1
             THEN [raised |-> "none",
                   value |-> Array(a.den * b.den, [i \in 1..Max2(n, m) |-> row(i)])]
        ELSE [raised |-> "ValueError", value |-> NoPoints]

\* the sum of the squares of the entries of the rows k..
RECURSIVE SumSquares(_, _)
SumSquares(points, k) ==
    IF k > Len(points) THEN 0
    ELSE Dot(points[k], points[k]) + SumSquares(points, k + 1)

\* the square root of num / den, kept unevaluated
RootOf(n, d) == [root_num |-> n, root_den |-> d]
NoNumber == RootOf(0, 1)

\* structural_alignment lines 86-89: np.sqrt(np.mean(np.sum(diff**2, axis=1)));
\* np.sum(axis=1) of the one-dimensional difference of two empty arrays
\* raises AxisError
calculate_rmsd(a, b) ==
    LET diff == NP_Subtract(a, b)
    IN  IF diff.raised # "none" THEN [raised |-> diff.raised, value |-> NoNumber]
        ELSE IF diff.value.rows = <<>> THEN [raised |-> "AxisError", value |-> NoNumber]
        ELSE [raised |-> "none",
              value |-> RootOf(SumSquares(diff.value.rows, 1),
                               Len(diff.value.rows) * diff.value.den * diff.value.den)]

----------------------------------------------------------------------------
(* np.linalg.svd of a 3 x 3 matrix                                          *)

\* The factors U and Vt are orthonormal; such a matrix is kept as an integer
\* matrix m of orthogonal vectors and their squared lengths n, column j of U
\* (row j of Vt) being the j-th vector divided by the root of n[j].
Orthonormal(matrix, norms) == [m |-> matrix, n |-> norms]

\* the directions the factors are taken from: the axes and the diagonals of
\* the coordinate planes
FrameVectors ==
    {v \in {-1, 0, 1} \X {-1, 0, 1} \X {-1, 0, 1} : Dot(v, v) \in {1, 2}}

\* the triples of mutually orthogonal directions
Frames ==
    {f \in FrameVectors \X FrameVectors \X FrameVectors :
        Dot(f[1], f[2]) = 0 /\ Dot(f[1], f[3]) = 0 /\ Dot(f[2], f[3]) = 0}

Norms(f) == <<Dot(f[1], f[1]), Dot(f[2], f[2]), Dot(f[3], f[3])>>

\* b is the direction of w, or any direction when w is zero
DirectionOf(w, b) == w = ZeroVec \/ (Cross(w, b) = ZeroVec /\ Dot(w, b) > 0)

\* the frames of each pattern of squared lengths
FramesOf == [n \in {Norms(f) : f \in Frames} |-> {f \in Frames : Norms(f) = n}]

\* a frame of left vectors for the transposed matrix Ht: their images are
\* orthogonal and descend in length
LeftFrame(image, a) ==
    LET n == Norms(a)
    IN  /\ Dot(image[a[1]], image[a[2]]) = 0
        /\ Dot(image[a[1]], image[a[3]]) = 0
        /\ Dot(image[a[2]], image[a[3]]) = 0
        /\ Dot(image[a[1]], image[a[1]]) * n[2] >= Dot(image[a[2]], image[a[2]]) * n[1]
        /\ Dot(image[a[2]], image[a[2]]) * n[3] >= Dot(image[a[3]], image[a[3]]) * n[2]

\* the frames of right vectors that go with the left frame a: the
\* directions of the images, of the same squared lengths
RightFrames(image, a) ==
    {b \in FramesOf[Norms(a)] :
        /\ DirectionOf(image[a[1]], b[1])
        /\ DirectionOf(image[a[2]], b[2])
        /\ DirectionOf(image[a[3]], b[3])}

\* H = U @ diag(S) @ Vt with S non-negative and descending: every such
\* factorization with factors among Frames. H is a matrix over a denominator;
\* image[v] is H.T @ v, which is the singular value times the right vector
\* when v is a left vector.
svd(H) ==
    LET Ht == Transpose(H.num)
        image == [v \in FrameVectors |-> MatVec(Ht, v)]
        factors(a) ==
            LET n == Norms(a)
                left == Orthonormal(Transpose(a), n)
                sigma(b, j) == Frac(Dot(image[a[j]], b[j]), n[j] * H.den)
            IN  {[U |-> left,
                  S |-> <<sigma(b, 1), sigma(b, 2), sigma(b, 3)>>,
                  Vt |-> Orthonormal(b, n)] : b \in RightFrames(image, a)}
    IN  UNION {factors(a) : a \in {f \in Frames : LeftFrame(image, f)}}

\* greatest common divisor of two non-negative numbers
RECURSIVE GCD(_, _)
GCD(a, b) == IF b = 0 THEN a ELSE GCD(b, a % b)

GCD3(v) == GCD(GCD(Abs(v[1]), Abs(v[2])), Abs(v[3]))

\* a vector and a matrix over a denominator, in lowest terms
Rational3(v, d) ==
    LET g == GCD(GCD3(v), d)
    IN  [num |-> <<v[1] \div g, v[2] \div g, v[3] \div g>>, den |-> d \div g]

Rational33(m, d) ==
    LET g == GCD(GCD(GCD(GCD3(m[1]), GCD3(m[2])), GCD3(m[3])), d)
        r(v) == <<v[1] \div g, v[2] \div g, v[3] \div g>>
    IN  [num |-> <<r(m[1]), r(m[2]), r(m[3])>>, den |-> d \div g]

\* the product the other way round: U @ Vt
MatMulFactors_swapped(Vt, U) ==
    LET e(r, c) == (2 \div Vt.n[1]) * U.m[r][1] * Vt.m[1][c]
                   + (2 \div Vt.n[2]) * U.m[r][2] * Vt.m[2][c]
                   + (2 \div Vt.n[3]) * U.m[r][3] * Vt.m[3][c]
    IN  Rational33(<<<<e(1, 1), e(1, 2), e(1, 3)>>,
                     <<e(2, 1), e(2, 2), e(2, 3)>>,
                     <<e(3, 1), e(3, 2), e(3, 3)>>>>, 2)

\* Vt.T @ U.T for two factors with the same squared lengths (1 or 2)
MatMulFactors(Vt, U) ==
    LET e(r, c) == (2 \div Vt.n[1]) * Vt.m[1][r] * U.m[c][1]
                   + (2 \div Vt.n[2]) * Vt.m[2][r] * U.m[c][2]
                   + (2 \div Vt.n[3]) * Vt.m[3][r] * U.m[c][3]
    IN  Rational33(<<<<e(1, 1), e(1, 2), e(1, 3)>>,
                     <<e(2, 1), e(2, 2), e(2, 3)>>,
                     <<e(3, 1), e(3, 2), e(3, 3)>>>>, 2)

----------------------------------------------------------------------------
(* kabsch_align, extract_transformation, apply_transform                   *)

\* the sum over the rows k.. of the outer products of the centered points:
\* P_centered.T @ Q_centered, times N * N
RECURSIVE CovarianceFrom(_, _, _, _, _)
CovarianceFrom(rowsP, sumP, rowsQ, sumQ, k) ==
    IF k > Len(rowsP) THEN <<ZeroVec, ZeroVec, ZeroVec>>
    ELSE LET N == Len(rowsP)
             pc_ == VecSub(VecScale(N, rowsP[k]), sumP)
             qc_ == VecSub(VecScale(N, rowsQ[k]), sumQ)
             rest == CovarianceFrom(rowsP, sumP, rowsQ, sumQ, k + 1)
         IN  <<VecAdd(VecScale(pc_[1], qc_), rest[1]),
               VecAdd(VecScale(pc_[2], qc_), rest[2]),
               VecAdd(VecScale(pc_[3], qc_), rest[3])>>

\* lines 41-48: H of two equally long arrays, over its denominator
Covariance(a, b) ==
    [num |-> CovarianceFrom(a.rows, SumFrom(a.rows, 1), b.rows, SumFrom(b.rows, 1), 1),
     den |-> Len(a.rows) * Len(a.rows) * a.den * b.den]

NegateLastRow(Vt) == Orthonormal(<<Vt.m[1], Vt.m[2], VecScale(-1, Vt.m[3])>>, Vt.n)

\* the correction left out
ReflectionCorrected_never(Vt, d) == Vt

\* the correction applied to the first row
ReflectionCorrected_firstRow(Vt, d) ==
    IF d < 0 THEN Orthonormal(<<VecScale(-1, Vt.m[1]), Vt.m[2], Vt.m[3]>>, Vt.n) ELSE Vt

\* lines 54-56: if d < 0: Vt[-1, :] *= -1
ReflectionCorrected(Vt, d) == IF d < 0 THEN NegateLastRow(Vt) ELSE Vt

\* lines 62: t = centroid_Q - R @ centroid_P, the centroids being the sums
\* of the rows over N
Translation(a, b, rot) ==
    Rational3(VecSub(VecScale(rot.den * a.den, SumFrom(b.rows, 1)),
                     VecScale(b.den, MatVec(rot.num, SumFrom(a.rows, 1)))),
              Len(a.rows) * a.den * b.den * rot.den)

NoRotation == Rational33(Identity3, 1)
NoTranslation == Rational3(ZeroVec, 1)
Failed(e) == [raised |-> e, R |-> NoRotation, t |-> NoTranslation]

\* lines 51-64 on the covariance H of two equally long arrays with a row:
\* one result for each factorization np.linalg.svd may return
KabschOf(H, a, b) ==
    {LET d == Det(MatMulFactors(f.Vt, f.U).num)
         rot == MatMulFactors(ReflectionCorrected(f.Vt, d), f.U)
     IN  [raised |-> "none", R |-> rot, t |-> Translation(a, b, rot)] :
        f \in svd(H)}

Kabsch(a, b) == KabschOf(Covariance(a, b), a, b)

\* structural_alignment lines 33-64. The product P_centered.T @ Q_centered
\* raises ValueError for arrays of different lengths; of two empty arrays it
\* is a scalar, which np.linalg.svd refuses with LinAlgError.
kabsch_align(a, b) ==
    IF a.rows = <<>> /\ b.rows = <<>> THEN {Failed("LinAlgError")}
    ELSE IF Len(a.rows) # Len(b.rows) THEN {Failed("ValueError")}
    ELSE Kabsch(a, b)

\* the first k rows of an array: ca_A[:min_len]
Truncated(a, k) == Array(a.den, SubSeq(a.rows, 1, k))

\* assemble_tetramer lines 44-71: the arrays are cut to the shorter length
\* first; lines 53-69 repeat lines 41-62 of kabsch_align. With no row left
\* the product has fewer than two dimensions: LinAlgError.
extract_transformation(ca_A, ca_C) ==
    LET min_len == Min2(Len(ca_A.rows), Len(ca_C.rows))
    IN  IF min_len = 0 THEN {Failed("LinAlgError")}
        ELSE Kabsch(Truncated(ca_A, min_len), Truncated(ca_C, min_len))

\* A record of a PDB file: the text before the coordinates (line[:30]) as
\* its fields, the three coordinate fields as numbers of thousandths, and the
\* text after them (line[54:]). A record that is no atom has no coordinates
\* and carries zeros there.
PdbLine(rec, ser, nm, ch, rs, xyz, rest) ==
    [record |-> rec, serial |-> ser, name |-> nm, chain |-> ch, resid |-> rs,
     x |-> xyz[1], y |-> xyz[2], z |-> xyz[3], tail |-> rest]

\* float(line[30:38]) and the like, for the rows of an array: thousandths
\* over 1000, in whole units when every field holds a whole number
RECURSIVE GCDRows(_, _)
GCDRows(points, k) ==
    IF k > Len(points) THEN 0 ELSE GCD(GCD3(points[k]), GCDRows(points, k + 1))

ParsedArray(fields) ==
    LET g == GCD(GCDRows(fields, 1), 1000)
    IN  Array(1000 \div g,
              [i \in 1..Len(fields) |-> <<fields[i][1] \div g, fields[i][2] \div g,
                                         fields[i][3] \div g>>])

\* structural_alignment lines 18-31
get_ca_coords_and_resids(lines, chain_id) ==
    LET IsCA(line) == /\ line.record = "ATOM"
                      /\ line.name = "CA"
                      /\ (chain_id = "None" \/ line.chain = chain_id)
        found == SelectSeq(lines, IsCA)
    IN  [coords |-> ParsedArray([i \in 1..Len(found) |->
                                    <<found[i].x, found[i].y, found[i].z>>]),
         resids |-> [i \in 1..Len(found) |-> found[i].resid]]

\* a / b rounded to the nearest whole number, b > 0
RoundDiv(a, b) == (2 * a + b) \div (2 * b)

\* f"{new_coord[k]:8.3f}" of R @ coord + t for the fields xyz: a number of
\* thousandths again (no value here lies halfway between two thousandths)
TransformedFields(xyz, rot, trans) ==
    LET turned == MatVec(rot.num, xyz)
        field(k) == RoundDiv(trans.den * turned[k] + 1000 * rot.den * trans.num[k],
                             rot.den * trans.den)
    IN  <<field(1), field(2), field(3)>>

\* the record with its coordinate fields replaced
TransformedLine(line, rot, trans) ==
    LET new == TransformedFields(<<line.x, line.y, line.z>>, rot, trans)
    IN  [line EXCEPT !.x = new[1], !.y = new[2], !.z = new[3]]

\* the loop writing into the list it was given
apply_transform_inPlace(lines, rot, trans) ==
    LET out == [i \in 1..Len(lines) |->
                  IF lines[i].record \in {"ATOM", "HETATM"}
                  THEN TransformedLine(lines[i], rot, trans) ELSE lines[i]]
    IN  [pdb_lines |-> out, transformed |-> out]

\* structural_alignment lines 66-84: the list passed, as the call leaves it,
\* and the new list returned
apply_transform(lines, rot, trans) ==
    [pdb_lines |-> lines,
     transformed |-> [i \in 1..Len(lines) |->
                        IF lines[i].record \in {"ATOM", "HETATM"}
                        THEN TransformedLine(lines[i], rot, trans) ELSE lines[i]]]

\* assemble_tetramer lines 73-91, the same loop
apply_transformation(lines, rot, trans) ==
    [pdb_lines |-> lines,
     transformed |-> [i \in 1..Len(lines) |->
                        IF lines[i].record \in {"ATOM", "HETATM"}
                        THEN TransformedLine(lines[i], rot, trans) ELSE lines[i]]]

\* nothing fitted
FitIdle ==
    /\ P = NoPoints
    /\ Q = NoPoints
    /\ R = NoRotation
    /\ tvec = NoTranslation
    /\ rmsd = NoNumber
    /\ pdb_lines = <<>>
    /\ transformed = <<>>

\* no concurrent run
ThreadsIdle == threads = <<>>

\* the position of a traceback loop: i, j and the iterations made so far
Position(i, j, n) == [i |-> i, j |-> j, iterations |-> n]
\* no traceback under way
LoopIdle == tb = Position(0, 0, 0)

----------------------------------------------------------------------------
(* Inputs *)

\* scoring values tried for needleman_wunsch's match, mismatch and gap: a
\* penalty, nothing and a bonus in every combination, beside the defaults
ScoreValues == {-1, 0, 1}

\* the scenario of the design notes: "ACGT" against "AGT"
ScenarioA == <<"A", "C", "G", "T">>
ScenarioB == <<"A", "G", "T">>

SeqPairs == (SeqsUpTo(Residues, MaxLen) \X SeqsUpTo(Residues, MaxLen))
                \cup {<<ScenarioA, ScenarioB>>}

Settings == (ScoreValues \X ScoreValues \X ScoreValues)
                \cup {<<NW_default_match, NW_default_mismatch, NW_default_gap>>}

Rows == SeqsUpTo(RowSymbols, MaxRowLen)

----------------------------------------------------------------------------
(* The aligner driven once on drawn arguments                              *)

\* the call about to be made: the routine, its two sequences and, for
\* needleman_wunsch, its scoring arguments (simple_align takes none: its
\* own are in force)
InitAlign ==
    /\ pc = "start"
    /\ \E p \in SeqPairs : seq1 = p[1] /\ seq2 = p[2]
    /\ \/ /\ fn = "needleman_wunsch"
          /\ \E s \in Settings : match = s[1] /\ mismatch = s[2] /\ gap = s[3]
       \/ /\ fn = "simple_align"
          /\ match = SA_match_score
          /\ mismatch = SA_mismatch_score
          /\ gap = SA_gap_penalty
    /\ score = NoMatrix
    /\ aligned1 = <<>>
    /\ aligned2 = <<>>
    /\ raised = "none"
    /\ identity = Zero
    /\ mapping = EmptyDict
    /\ calls = <<>>
    /\ ContactsIdle
    /\ FitIdle
    /\ ThreadsIdle
    /\ LoopIdle

\* create_dimer_alignment line 154: simple_align(target_seq_a, template_seq_a)
SimpleAlign ==
    /\ pc = "start"
    /\ fn = "simple_align"
    /\ pc' = "aligned"
    /\ LET r == simple_align(seq1, seq2)
       IN  /\ score' = r.score
           /\ raised' = r.raised
           /\ aligned1' = r.rows[1]
           /\ aligned2' = r.rows[2]
    /\ UNCHANGED <<fn, seq1, seq2, match, mismatch, gap, identity, mapping, calls>>
    /\ UNCHANGED contactVars
    /\ UNCHANGED fitVars
    /\ UNCHANGED threadVars
    /\ UNCHANGED loopVars

\* setup_gyrase_model main line 178: needleman_wunsch(gyra_full, template_gyra_a)
NeedlemanWunsch ==
    /\ pc = "start"
    /\ fn = "needleman_wunsch"
    /\ pc' = "aligned"
    /\ LET r == needleman_wunsch(seq1, seq2, match, mismatch, gap)
       IN  /\ score' = r.score
           /\ raised' = r.raised
           /\ aligned1' = r.rows[1]
           /\ aligned2' = r.rows[2]
    /\ UNCHANGED <<fn, seq1, seq2, match, mismatch, gap, identity, mapping, calls>>
    /\ UNCHANGED contactVars
    /\ UNCHANGED fitVars
    /\ UNCHANGED threadVars
    /\ UNCHANGED loopVars

\* generate_alignment.calculate_identity on the current rows
CalculateIdentityGA ==
    /\ pc = "aligned"
    /\ raised = "none"
    /\ pc' = "identity_ga"
    /\ identity' = GA_calculate_identity(aligned1, aligned2)
    /\ UNCHANGED <<fn, seq1, seq2, match, mismatch, gap, score, aligned1, aligned2,
                   raised, mapping, calls>>
    /\ UNCHANGED contactVars
    /\ UNCHANGED fitVars
    /\ UNCHANGED threadVars
    /\ UNCHANGED loopVars

\* setup_gyrase_model.calculate_identity on the current rows (main line 179)
CalculateIdentitySG ==
    /\ pc = "aligned"
    /\ raised = "none"
    /\ pc' = "identity_sg"
    /\ identity' = SG_calculate_identity(aligned1, aligned2)
    /\ UNCHANGED <<fn, seq1, seq2, match, mismatch, gap, score, aligned1, aligned2,
                   raised, mapping, calls>>
    /\ UNCHANGED contactVars
    /\ UNCHANGED fitVars
    /\ UNCHANGED threadVars
    /\ UNCHANGED loopVars

\* find_conserved_binding_residues lines 228-230 on the current rows
InlineIdentityCBC ==
    /\ pc = "aligned"
    /\ raised = "none"
    /\ pc' = "identity_cbc"
    /\ identity' = CBC_identity(aligned1, aligned2)
    /\ UNCHANGED <<fn, seq1, seq2, match, mismatch, gap, score, aligned1, aligned2,
                   raised, mapping, calls>>
    /\ UNCHANGED contactVars
    /\ UNCHANGED fitVars
    /\ UNCHANGED threadVars
    /\ UNCHANGED loopVars

\* align_residue_mapping(target row, template row) on the current rows
AlignResidueMapping ==
    /\ pc = "aligned"
    /\ raised = "none"
    /\ pc' = "mapped"
    /\ mapping' = align_residue_mapping(aligned1, aligned2)
    /\ UNCHANGED <<fn, seq1, seq2, match, mismatch, gap, score, aligned1, aligned2,
                   raised, identity, calls>>
    /\ UNCHANGED contactVars
    /\ UNCHANGED fitVars
    /\ UNCHANGED threadVars
    /\ UNCHANGED loopVars

NextAlign ==
    \/ SimpleAlign
    \/ NeedlemanWunsch
    \/ CalculateIdentityGA
    \/ CalculateIdentitySG

SpecAlign == InitAlign /\ [][NextAlign]_vars

----------------------------------------------------------------------------
(* The routines that read two aligned rows, driven on rows as              *)
(* parse_grishin_alignment hands them over: any two lines of the file      *)

InitRows ==
    /\ pc = "aligned"
    /\ fn = "parse_grishin_alignment"
    /\ aligned1 \in Rows
    /\ aligned2 \in Rows
    /\ seq1 = <<>>
    /\ seq2 = <<>>
    /\ match = NW_default_match
    /\ mismatch = NW_default_mismatch
    /\ gap = NW_default_gap
    /\ score = NoMatrix
    /\ raised = "none"
    /\ identity = Zero
    /\ mapping = EmptyDict
    /\ calls = <<>>
    /\ ContactsIdle
    /\ FitIdle
    /\ ThreadsIdle
    /\ LoopIdle

NextRows ==
    \/ CalculateIdentityGA
    \/ CalculateIdentitySG
    \/ InlineIdentityCBC
    \/ AlignResidueMapping

SpecRows == InitRows /\ [][NextRows]_vars

----------------------------------------------------------------------------
(* Several aligner calls in one process, as setup_gyrase_model main (lines *)
(* 178, 186) and create_dimer_alignment (lines 154-155) make them          *)

CallSeqA == <<"A", "C", "A">>
CallSeqB == <<"A", "A">>
CallSeqC == <<"C">>
CallPairs == {<<CallSeqA, CallSeqB>>, <<CallSeqC, CallSeqA>>}
CallSettings == {<<NW_default_match, NW_default_mismatch, NW_default_gap>>, <<1, 0, 0>>}

InitCalls ==
    /\ pc = "start"
    /\ fn = "none"
    /\ seq1 = <<>>
    /\ seq2 = <<>>
    /\ match = NW_default_match
    /\ mismatch = NW_default_mismatch
    /\ gap = NW_default_gap
    /\ score = NoMatrix
    /\ aligned1 = <<>>
    /\ aligned2 = <<>>
    /\ raised = "none"
    /\ identity = Zero
    /\ mapping = EmptyDict
    /\ calls = <<>>
    /\ ContactsIdle
    /\ FitIdle
    /\ ThreadsIdle
    /\ LoopIdle

Logged(f, args, r) == [fn |-> f, args |-> args, raised |-> r.raised, rows |-> r.rows]

CallSimpleAlign ==
    /\ Len(calls) < MaxCalls
    /\ \E p \in CallPairs :
          LET r == simple_align(p[1], p[2])
          IN  /\ seq1' = p[1]
              /\ seq2' = p[2]
              /\ match' = SA_match_score
              /\ mismatch' = SA_mismatch_score
              /\ gap' = SA_gap_penalty
              /\ score' = r.score
              /\ raised' = r.raised
              /\ aligned1' = r.rows[1]
              /\ aligned2' = r.rows[2]
              /\ calls' = Append(calls, Logged("simple_align", p, r))
    /\ pc' = "aligned"
    /\ fn' = "simple_align"
    /\ UNCHANGED <<identity, mapping>>
    /\ UNCHANGED contactVars
    /\ UNCHANGED fitVars
    /\ UNCHANGED threadVars
    /\ UNCHANGED loopVars

CallNeedlemanWunsch ==
    /\ Len(calls) < MaxCalls
    /\ \E p \in CallPairs, t \in CallSettings :
          LET r == needleman_wunsch(p[1], p[2], t[1], t[2], t[3])
          IN  /\ seq1' = p[1]
              /\ seq2' = p[2]
              /\ match' = t[1]
              /\ mismatch' = t[2]
              /\ gap' = t[3]
              /\ score' = r.score
              /\ raised' = r.raised
              /\ aligned1' = r.rows[1]
              /\ aligned2' = r.rows[2]
              /\ calls' = Append(calls, Logged("needleman_wunsch", <<p, t>>, r))
    /\ pc' = "aligned"
    /\ fn' = "needleman_wunsch"
    /\ UNCHANGED <<identity, mapping>>
    /\ UNCHANGED contactVars
    /\ UNCHANGED fitVars
    /\ UNCHANGED threadVars
    /\ UNCHANGED loopVars

NextCalls == CallSimpleAlign \/ CallNeedlemanWunsch

SpecCalls == InitCalls /\ [][NextCalls]_vars

----------------------------------------------------------------------------
(* The constraint generator run on a template structure                    *)

Atom(n, p) == [name |-> n, xyz |-> p]

\* residues of the first chain: around the origin
ResidueKindsA ==
    { <<Atom("CA", <<0, 0, 0>>)>>,
      <<Atom("N", <<1, 0, 0>>), Atom("CA", <<0, 0, 0>>)>>,
      <<Atom("CA", <<0, 0, 0>>), Atom("CG", <<0, 1, 0>>)>>,
      <<Atom("CG", <<0, 1, 0>>)>> }

\* residues of the second chain: CA at 3 and at 5 from the origin, N at 6
ResidueKindsB ==
    { <<Atom("CA", <<0, 0, 3>>)>>,
      <<Atom("CA", <<3, 4, 0>>)>>,
      <<Atom("N", <<0, 0, 6>>), Atom("CA", <<0, 0, 3>>)>>,
      <<Atom("CG", <<0, 0, 2>>)>> }

\* a chain whose residues are numbered from 1 in file order
Chain(id, kinds) ==
    [chain |-> id,
     residues |-> [r \in 1..Len(kinds) |-> [res |-> r, atoms |-> kinds[r]]]]

ChainsOf(id, kinds, k) == {Chain(id, ks) : ks \in SeqsUpTo(kinds, k) \ {<<>>}}

ThirdChain == Chain("C", <<<<Atom("CA", <<0, 0, 1>>)>>>>)

\* two CA atoms at the distance sqrt(8) = 2.828..., which is no whole number
\* of hundredths
OffGridPair ==
    <<Chain("A", <<<<Atom("CA", <<0, 0, 0>>)>>>>),
      Chain("B", <<<<Atom("CA", <<2, 2, 0>>)>>>>)>>

\* structures of no, one, two and three chains, and the pair off the grid
Structures ==
    {<<>>}
    \cup {<<a>> : a \in ChainsOf("A", ResidueKindsA, 1)}
    \cup {<<a, b>> : a \in ChainsOf("A", ResidueKindsA, MaxRes),
                     b \in ChainsOf("B", ResidueKindsB, MaxRes)}
    \cup {<<a, b, ThirdChain>> : a \in ChainsOf("A", ResidueKindsA, 1),
                                 b \in ChainsOf("B", ResidueKindsB, 1)}
    \cup {OffGridPair}

\* values of --distance (type=float takes any number): negative, zero, below,
\* between and at the distances of the structures, and the default
Cutoffs == {-1, 0, 2, 5, DefaultCutoff}

\* values of --type and --tolerance: the defaults, and bounded lines with a
\* tolerance of 1.0
Options == {<<DefaultType, DefaultTolerance>>, <<"bounded", 1>>}

AlignerIdle ==
    /\ fn = "none"
    /\ seq1 = <<>>
    /\ seq2 = <<>>
    /\ match = NW_default_match
    /\ mismatch = NW_default_mismatch
    /\ gap = NW_default_gap
    /\ score = NoMatrix
    /\ aligned1 = <<>>
    /\ aligned2 = <<>>
    /\ raised = "none"
    /\ identity = Zero
    /\ mapping = EmptyDict
    /\ calls = <<>>

InitContacts ==
    /\ pc = "start"
    /\ AlignerIdle
    /\ FitIdle
    /\ ThreadsIdle
    /\ LoopIdle
    /\ coords \in Structures
    /\ distance_cutoff = DefaultCutoff
    /\ contacts = <<>>
    /\ interface_constraints = <<>>
    /\ earlier = NoRun
    /\ interface = NoInterface
    /\ type = DefaultType
    /\ tolerance = DefaultTolerance
    /\ all_constraints = {}

\* generate_constraints main, lines 206-228, with --distance c, --type
\* o[1] and --tolerance o[2]; a second run on the same template keeps what
\* the first returned in earlier
GenerateConstraintsMain ==
    /\ pc \in {"start", "run1"}
    /\ pc' = IF pc = "start" THEN "run1" ELSE "run2"
    /\ \E c \in Cutoffs, o \in Options :
          /\ distance_cutoff' = c
          /\ type' = o[1]
          /\ tolerance' = o[2]
          /\ contacts' = find_interface_contacts(coords, c)
          /\ interface_constraints' = generate_interface_constraints(coords, c)
          /\ all_constraints' =
                Deduplicated(ConstraintsOf(find_interface_contacts(coords, c), o[1], o[2]),
                             generate_interface_constraints(coords, c))
          /\ raised' = ScanRaises(c)
    /\ earlier' = IF pc = "start" THEN NoRun
                  ELSE [distance_cutoff |-> distance_cutoff, contacts |-> contacts,
                        interface_constraints |-> interface_constraints]
    /\ UNCHANGED <<coords, interface>>
    /\ UNCHANGED alignerKept
    /\ UNCHANGED fitVars
    /\ UNCHANGED threadVars
    /\ UNCHANGED loopVars

\* analyze_models: identify_interface_residues(pdb_file, distance_cutoff)
IdentifyInterfaceResidues ==
    /\ pc = "start"
    /\ pc' = "identified"
    /\ \E c \in Cutoffs :
          /\ distance_cutoff' = c
          /\ interface' = identify_interface_residues(coords, c)
          /\ raised' = ScanRaises(c)
    /\ UNCHANGED <<coords, contacts, interface_constraints, earlier, type, tolerance,
                   all_constraints>>
    /\ UNCHANGED alignerKept
    /\ UNCHANGED fitVars
    /\ UNCHANGED threadVars
    /\ UNCHANGED loopVars

NextContacts == GenerateConstraintsMain \/ IdentifyInterfaceResidues

SpecContacts == InitContacts /\ [][NextContacts]_vars

----------------------------------------------------------------------------
(* The superposition of a model on a template                              *)

\* CA positions: points on the axes around the origin, a corner, and the
\* corners of a box taken alternately
PointsA == <<<<1, 0, 0>>, <<-1, 0, 0>>, <<0, 2, 0>>, <<0, -2, 0>>, <<0, 0, 3>>>>
PointsB == <<<<0, 0, 0>>, <<1, 0, 0>>, <<0, 1, 0>>, <<0, 0, 2>>, <<0, 0, -2>>>>
PointsC == <<<<1, 2, 3>>, <<1, -2, -3>>, <<-1, 2, -3>>, <<-1, -2, 3>>, <<0, 0, 0>>>>
PointLists == {SubSeq(l, 1, k) : l \in {PointsA, PointsB, PointsC}, k \in 0..MaxPoints}

\* how a template lies to its model: a matrix and a shift
Placement(matrix, shift) == [m |-> matrix, by |-> shift]
QuarterTurnZ == <<<<0, -1, 0>>, <<1, 0, 0>>, <<0, 0, 1>>>>
QuarterTurnX == <<<<1, 0, 0>>, <<0, 0, -1>>, <<0, 1, 0>>>>
HalfTurnZ == <<<<-1, 0, 0>>, <<0, -1, 0>>, <<0, 0, 1>>>>
ThirdTurn == <<<<0, 0, 1>>, <<1, 0, 0>>, <<0, 1, 0>>>>
MirrorX == <<<<-1, 0, 0>>, <<0, 1, 0>>, <<0, 0, 1>>>>
MirrorSwap == <<<<0, 1, 0>>, <<1, 0, 0>>, <<0, 0, 1>>>>
StretchY == <<<<1, 0, 0>>, <<0, 2, 0>>, <<0, 0, 1>>>>
StretchTurn == <<<<0, -2, 0>>, <<1, 0, 0>>, <<0, 0, 1>>>>

ProperRotations == {Identity3, QuarterTurnZ, QuarterTurnX, HalfTurnZ, ThirdTurn}
Shifts == {ZeroVec, <<5, 0, 0>>}
Placements ==
    {Placement(r, by) : r \in ProperRotations, by \in Shifts}
    \cup {Placement(r, ZeroVec) : r \in {MirrorX, MirrorSwap, StretchY, StretchTurn}}

Placed(g, points) == [i \in 1..Len(points) |-> VecAdd(MatVec(g.m, points[i]), g.by)]

\* the records of a model file whose chain A has its CA atoms at points (in
\* whole units), with a side-chain atom, a chain end, an ion and a second chain
ModelFile(points) ==
    [i \in 1..Len(points) |->
        PdbLine("ATOM", i, "CA", "A", i, VecScale(1000, points[i]), "1.00 A")]
    \o <<PdbLine("ATOM", 90, "CB", "A", 1, <<1500, -250, 0>>, "1.00 B"),
         PdbLine("TER", 91, "", "A", 1, ZeroVec, ""),
         PdbLine("HETATM", 92, "MG", "A", 900, <<0, 0, -1000>>, "1.00 M"),
         PdbLine("ATOM", 93, "CA", "B", 1, <<2000, 2000, 2000>>, "0.50 C")>>

\* np.linalg.svd of the covariance of the first rows the two arrays share has
\* a factorization among Frames
Factorizable(a, b) ==
    LET k == Min2(Len(a.rows), Len(b.rows))
        Ht == Transpose(Covariance(Truncated(a, k), Truncated(b, k)).num)
        image == [v \in FrameVectors |-> MatVec(Ht, v)]
    IN  k = 0 \/ \E f \in Frames : LeftFrame(image, f) /\ RightFrames(image, f) # {}

\* a model of three residues or more with its template under every placement,
\* and two files of nearly as many residues as each other (the same number, or
\* one more) under no change of place
Candidates ==
    {<<a, Placed(g, a)>> : a \in {l \in PointLists : Len(l) >= 3}, g \in Placements}
    \cup {<<SubSeq(PointsA, 1, n[1]), SubSeq(PointsA, 1, n[2])>> :
             n \in {m \in (0..MaxPoints) \X (0..MaxPoints) : Abs(m[1] - m[2]) <= 1}}

FitInputs == {in \in Candidates : Factorizable(Array(1, in[1]), Array(1, in[2]))}

InitFit ==
    /\ pc = "start"
    /\ AlignerIdle
    /\ ContactsIdle
    /\ ThreadsIdle
    /\ LoopIdle
    /\ \E in \in FitInputs :
          /\ pdb_lines = ModelFile(in[1])
          /\ P = get_ca_coords_and_resids(pdb_lines, "A").coords
          /\ Q = Array(1, in[2])
    /\ R = NoRotation
    /\ tvec = NoTranslation
    /\ rmsd = NoNumber
    /\ transformed = <<>>

\* a call of calculate_rmsd, as at line 151 of structural_alignment's main;
\* main passes arrays of one length, the function takes any two
CalculateRmsd ==
    /\ pc = "start"
    /\ pc' = "measured"
    /\ LET r == calculate_rmsd(P, Q)
       IN  rmsd' = r.value /\ raised' = r.raised
    /\ fn' = "calculate_rmsd"
    /\ UNCHANGED <<P, Q, R, tvec, pdb_lines, transformed>>
    /\ UNCHANGED <<seq1, seq2, match, mismatch, gap, score, aligned1, aligned2,
                   identity, mapping, calls>>
    /\ UNCHANGED contactVars
    /\ UNCHANGED threadVars
    /\ UNCHANGED loopVars

\* a call of kabsch_align, as at line 156 of structural_alignment's main, on
\* any two arrays
KabschAlign ==
    /\ pc = "start"
    /\ pc' = "fitted"
    /\ \E r \in kabsch_align(P, Q) :
          R' = r.R /\ tvec' = r.t /\ raised' = r.raised
    /\ fn' = "kabsch_align"
    /\ UNCHANGED <<P, Q, rmsd, pdb_lines, transformed>>
    /\ UNCHANGED <<seq1, seq2, match, mismatch, gap, score, aligned1, aligned2,
                   identity, mapping, calls>>
    /\ UNCHANGED contactVars
    /\ UNCHANGED threadVars
    /\ UNCHANGED loopVars

\* assemble_tetramer main, line 129, on the CA arrays of lines 44-45
ExtractTransformation ==
    /\ pc = "start"
    /\ pc' = "fitted"
    /\ \E r \in extract_transformation(P, Q) :
          R' = r.R /\ tvec' = r.t /\ raised' = r.raised
    /\ fn' = "extract_transformation"
    /\ UNCHANGED <<P, Q, rmsd, pdb_lines, transformed>>
    /\ UNCHANGED <<seq1, seq2, match, mismatch, gap, score, aligned1, aligned2,
                   identity, mapping, calls>>
    /\ UNCHANGED contactVars
    /\ UNCHANGED threadVars
    /\ UNCHANGED loopVars

\* structural_alignment main, line 159: apply_transform(model_atoms, R, t)
ApplyTransform ==
    /\ pc = "fitted" /\ fn = "kabsch_align" /\ raised = "none"
    /\ pc' = "applied"
    /\ LET r == apply_transform(pdb_lines, R, tvec)
       IN  pdb_lines' = r.pdb_lines /\ transformed' = r.transformed
    /\ UNCHANGED <<P, Q, R, tvec, rmsd>>
    /\ UNCHANGED alignerVars
    /\ UNCHANGED contactVars
    /\ UNCHANGED threadVars
    /\ UNCHANGED loopVars

\* assemble_tetramer main, line 137: apply_transformation(gyrA, R, t)
ApplyTransformation ==
    /\ pc = "fitted" /\ fn = "extract_transformation" /\ raised = "none"
    /\ pc' = "applied"
    /\ LET r == apply_transformation(pdb_lines, R, tvec)
       IN  pdb_lines' = r.pdb_lines /\ transformed' = r.transformed
    /\ UNCHANGED <<P, Q, R, tvec, rmsd>>
    /\ UNCHANGED alignerVars
    /\ UNCHANGED contactVars
    /\ UNCHANGED threadVars
    /\ UNCHANGED loopVars

\* structural_alignment main, lines 162-170: the CA atoms of chain A read
\* back from the transformed records, measured against the template
FinalRmsd ==
    /\ pc = "applied" /\ fn = "kabsch_align"
    /\ pc' = "checked"
    /\ LET aligned_model_ca == get_ca_coords_and_resids(transformed, "A").coords
           r == calculate_rmsd(aligned_model_ca, Q)
       IN  rmsd' = r.value /\ raised' = r.raised
    /\ UNCHANGED <<P, Q, R, tvec, pdb_lines, transformed>>
    /\ UNCHANGED alignerKept
    /\ UNCHANGED contactVars
    /\ UNCHANGED threadVars
    /\ UNCHANGED loopVars

NextFit ==
    \/ CalculateRmsd
    \/ KabschAlign
    \/ ExtractTransformation
    \/ ApplyTransform
    \/ ApplyTransformation
    \/ FinalRmsd

SpecFit == InitFit /\ [][NextFit]_vars

----------------------------------------------------------------------------
(* Calls made at the same time by several threads of one process, each on  *)
(* arguments of its own.  A call's frame holds its arguments and its local  *)
(* names; a step of a call is what the routine does between two points at   *)
(* which another thread may run.                                            *)

Threads == 1..MaxThreads

\* a call to make: the routine and its arguments, the parameters of the
\* other routines left empty
Job(f, s1, s2, a, b, crd, cutoff) ==
    [fn |-> f, args |-> [seq1 |-> s1, seq2 |-> s2, P |-> a, Q |-> b,
                         coords |-> crd, distance_cutoff |-> cutoff]]
AlignJob(s1, s2) == Job("simple_align", s1, s2, NoPoints, NoPoints, <<>>, DefaultCutoff)
FitJob(a, b) == Job("kabsch_align", <<>>, <<>>, a, b, <<>>, DefaultCutoff)
ScanJob(crd, cutoff) ==
    Job("find_interface_contacts", <<>>, <<>>, NoPoints, NoPoints, crd, cutoff)

\* two sequence pairs of the same lengths; the scenario's model and
\* template; a structure of two chains under the default cutoff
Jobs ==
    {AlignJob(<<"A", "C", "A">>, <<"A", "A">>),
     AlignJob(<<"C", "A", "A">>, <<"A", "A">>),
     FitJob(Array(1, <<<<0, 0, 0>>, <<1, 0, 0>>, <<0, 1, 0>>>>),
            Array(1, <<<<5, 0, 0>>, <<5, 1, 0>>, <<4, 0, 0>>>>)),
     ScanJob(<<Chain("A", <<<<Atom("N", <<1, 0, 0>>), Atom("CA", <<0, 0, 0>>)>>>>),
               Chain("B", <<<<Atom("CA", <<0, 0, 3>>)>>, <<Atom("CA", <<3, 4, 0>>)>>>>)>>,
             DefaultCutoff)}

\* a local name not bound yet: no matrix, no chain names, nothing to return
Unbound == <<>>
NoProduct == [num |-> <<>>, den |-> 0]
NoResult == [raised |-> "none", rows |-> <<<<>>, <<>>>>, R |-> NoRotation,
             t |-> NoTranslation, contacts |-> <<>>]

\* P_centered.T @ Q_centered of two empty arrays: a number, no matrix
ScalarProduct == [num |-> <<>>, den |-> 1]

\* what a call hands back, by the routine: rows, R and t, or contacts
AlignResult(r) == [NoResult EXCEPT !.raised = r.raised, !.rows = r.rows]
FitResult(r) == [NoResult EXCEPT !.raised = r.raised, !.R = r.R, !.t = r.t]
ScanResult(list) == [NoResult EXCEPT !.contacts = list]

\* the frame of a call just entered: the arguments bound, no local assigned
Frame(job) ==
    [job |-> job, at |-> "entered", args |-> job.args,
     score |-> Unbound, H |-> NoProduct, chains |-> Unbound, result |-> NoResult]

\* the frame every thread's call keeps its matrix in
ScoreSlot_shared(t) == 1

\* the frame the call of thread t keeps its matrix in: score is a local
\* name of simple_align (generate_alignment line 59), so its own
ScoreSlot(t) == t

InitThreads ==
    /\ pc = "threads"
    /\ AlignerIdle
    /\ ContactsIdle
    /\ FitIdle
    /\ LoopIdle
    /\ threads \in [Threads -> {Frame(j) : j \in Jobs}]

\* simple_align lines 56-73: the matrix built and filled
SA_FillStep(t) ==
    /\ threads[t].job.fn = "simple_align" /\ threads[t].at = "entered"
    /\ threads' = [[threads EXCEPT ![ScoreSlot(t)].score =
                        SA_Score(threads[t].args.seq1, threads[t].args.seq2)]
                      EXCEPT ![t].at = "filled"]
    /\ UNCHANGED <<pc, alignerVars, contactVars, fitVars, loopVars>>

\* simple_align lines 75-105: the traceback through the matrix, and the return
SA_TracebackStep(t) ==
    /\ threads[t].job.fn = "simple_align" /\ threads[t].at = "filled"
    /\ LET s1 == threads[t].args.seq1
           s2 == threads[t].args.seq2
           r == SA_Traceback(threads[ScoreSlot(t)].score, s1, s2, Len(s1), Len(s2),
                             <<>>, <<>>)
       IN  threads' = [threads EXCEPT ![t].at = "returned", ![t].result = AlignResult(r)]
    /\ UNCHANGED <<pc, alignerVars, contactVars, fitVars, loopVars>>

\* kabsch_align lines 41-48: the centroids, the centered arrays and H
KA_CovarianceStep(t) ==
    /\ threads[t].job.fn = "kabsch_align" /\ threads[t].at = "entered"
    /\ LET a == threads[t].args.P
           b == threads[t].args.Q
       IN  threads' =
             IF a.rows = <<>> /\ b.rows = <<>>
             THEN [threads EXCEPT ![t].at = "centered", ![t].H = ScalarProduct]
             ELSE IF Len(a.rows) # Len(b.rows)
                  THEN [threads EXCEPT ![t].at = "returned",
                                       ![t].result = FitResult(Failed("ValueError"))]
                  ELSE [threads EXCEPT ![t].at = "centered", ![t].H = Covariance(a, b)]
    /\ UNCHANGED <<pc, alignerVars, contactVars, fitVars, loopVars>>

\* kabsch_align lines 51-64: the factorization of H, R, t and the return
KA_RotationStep(t) ==
    /\ threads[t].job.fn = "kabsch_align" /\ threads[t].at = "centered"
    /\ \E r \in (IF threads[t].H.num = <<>> THEN {Failed("LinAlgError")}
                 ELSE KabschOf(threads[t].H, threads[t].args.P, threads[t].args.Q)) :
          threads' = [threads EXCEPT ![t].at = "returned", ![t].result = FitResult(r)]
    /\ UNCHANGED <<pc, alignerVars, contactVars, fitVars, loopVars>>

\* find_interface_contacts lines 62-68: the chain names, the first two taken
FIC_ChainsStep(t) ==
    /\ threads[t].job.fn = "find_interface_contacts" /\ threads[t].at = "entered"
    /\ LET crd == threads[t].args.coords
       IN  threads' =
             IF Len(crd) < 2
             THEN [threads EXCEPT ![t].at = "returned", ![t].result = ScanResult(<<>>)]
             ELSE [threads EXCEPT ![t].at = "chosen", ![t].chains = <<1, 2>>]
    /\ UNCHANGED <<pc, alignerVars, contactVars, fitVars, loopVars>>

\* find_interface_contacts lines 70-94: the scan of the two chains, and the return
FIC_ScanStep(t) ==
    /\ threads[t].job.fn = "find_interface_contacts" /\ threads[t].at = "chosen"
    /\ LET crd == threads[t].args.coords
           a == crd[threads[t].chains[1]]
           b == crd[threads[t].chains[2]]
       IN  threads' = [threads EXCEPT
                          ![t].at = "returned",
                          ![t].result = ScanResult(
                              FIC_Outer(a.chain, b.chain,
                                        AtomsFrom(a.residues, 1, 1),
                                        AtomsFrom(b.residues, 1, 1), 1,
                                        threads[t].args.distance_cutoff))]
    /\ UNCHANGED <<pc, alignerVars, contactVars, fitVars, loopVars>>

NextThreads ==
    \E t \in Threads :
        \/ SA_FillStep(t)
        \/ SA_TracebackStep(t)
        \/ KA_CovarianceStep(t)
        \/ KA_RotationStep(t)
        \/ FIC_ChainsStep(t)
        \/ FIC_ScanStep(t)

SpecThreads == InitThreads /\ [][NextThreads]_vars

----------------------------------------------------------------------------
(* The traceback loop of the aligner, one iteration at a time: the matrix  *)
(* is filled, i, j = m, n, and aligned1, aligned2 are the lists the loop    *)
(* appends to (lines 75-105 of generate_alignment, 83-107 of                *)
(* setup_gyrase_model)                                                      *)

\* scoring arguments tried for the loop: the defaults, free gaps, all zero,
\* and a bonus for gaps and mismatches
LoopSettings == {<<NW_default_match, NW_default_mismatch, NW_default_gap>>,
                 <<1, -1, 0>>, <<0, 0, 0>>, <<-1, 1, 1>>}

InitTrace ==
    /\ pc = "traceback"
    /\ \E p \in SeqPairs : seq1 = p[1] /\ seq2 = p[2]
    /\ \/ /\ fn = "needleman_wunsch"
          /\ \E s \in LoopSettings : match = s[1] /\ mismatch = s[2] /\ gap = s[3]
          /\ score = NW_Score(seq1, seq2, match, mismatch, gap)
       \/ /\ fn = "simple_align"
          /\ match = SA_match_score
          /\ mismatch = SA_mismatch_score
          /\ gap = SA_gap_penalty
          /\ score = SA_Score(seq1, seq2)
    /\ tb = Position(Len(seq1), Len(seq2), 0)
    /\ aligned1 = <<>>
    /\ aligned2 = <<>>
    /\ raised = "none"
    /\ identity = Zero
    /\ mapping = EmptyDict
    /\ calls = <<>>
    /\ ContactsIdle
    /\ FitIdle
    /\ ThreadsIdle

\* while i > 0 or j > 0
TB_Looping == pc = "traceback" /\ (tb.i > 0 \/ tb.j > 0)

\* the first test of the loop body, by the routine running
TB_TakeDiag ==
    IF fn = "needleman_wunsch"
    THEN NW_TakeDiag(score, seq1, seq2, tb.i, tb.j, match, mismatch)
    ELSE /\ tb.i > 0
         /\ tb.j > 0
         /\ Cell(score, tb.i, tb.j) = SA_ExpectedDiagonal(score, seq1, seq2, tb.i, tb.j)

\* the second test of the loop body
TB_TakeUp ==
    IF fn = "needleman_wunsch"
    THEN NW_TakeUp(score, tb.i, tb.j, gap)
    ELSE tb.i > 0 /\ Cell(score, tb.i, tb.j) = Cell(score, tb.i - 1, tb.j) + SA_gap_penalty

\* lines 91-95 (80-94): both characters appended, i -= 1, j -= 1, continue
TB_Diagonal ==
    /\ TB_Looping
    /\ TB_TakeDiag
    /\ aligned1' = Append(aligned1, PyIdx(seq1, tb.i - 1))
    /\ aligned2' = Append(aligned2, PyIdx(seq2, tb.j - 1))
    /\ tb' = Position(tb.i - 1, tb.j - 1, tb.iterations + 1)
    /\ UNCHANGED <<pc, fn, seq1, seq2, match, mismatch, gap, score, raised, identity,
                   mapping, calls>>
    /\ UNCHANGED <<contactVars, fitVars, threadVars>>

\* lines 98-101 (96-99): seq1[i-1] against a gap, i -= 1
TB_Up ==
    /\ TB_Looping
    /\ ~TB_TakeDiag
    /\ TB_TakeUp
    /\ aligned1' = Append(aligned1, PyIdx(seq1, tb.i - 1))
    /\ aligned2' = Append(aligned2, GAP)
    /\ tb' = Position(tb.i - 1, tb.j, tb.iterations + 1)
    /\ UNCHANGED <<pc, fn, seq1, seq2, match, mismatch, gap, score, raised, identity,
                   mapping, calls>>
    /\ UNCHANGED <<contactVars, fitVars, threadVars>>

\* lines 102-105 (100-103): a gap against seq2[j-1], j -= 1; seq2[j-1]
\* raises IndexError when seq2 has no such index
TB_Left ==
    /\ TB_Looping
    /\ ~TB_TakeDiag
    /\ ~TB_TakeUp
    /\ IF PyValid(seq2, tb.j - 1)
       THEN /\ aligned1' = Append(aligned1, GAP)
            /\ aligned2' = Append(aligned2, PyIdx(seq2, tb.j - 1))
            /\ tb' = Position(tb.i, tb.j - 1, tb.iterations + 1)
            /\ UNCHANGED <<pc, raised>>
       ELSE /\ raised' = "IndexError"
            /\ pc' = "raised"
            /\ UNCHANGED <<aligned1, aligned2, tb>>
    /\ UNCHANGED <<fn, seq1, seq2, match, mismatch, gap, score, identity, mapping, calls>>
    /\ UNCHANGED <<contactVars, fitVars, threadVars>>

\* line 107 (105): the loop left, the two lists reversed and returned
TB_Return ==
    /\ pc = "traceback"
    /\ ~(tb.i > 0 \/ tb.j > 0)
    /\ pc' = "returned"
    /\ aligned1' = Reverse(aligned1)
    /\ aligned2' = Reverse(aligned2)
    /\ UNCHANGED <<fn, seq1, seq2, match, mismatch, gap, score, raised, identity,
                   mapping, calls, tb>>
    /\ UNCHANGED <<contactVars, fitVars, threadVars>>

NextTrace == TB_Diagonal \/ TB_Up \/ TB_Left \/ TB_Return

SpecTrace == InitTrace /\ [][NextTrace]_vars

\* the interpreter runs the loop on: no iteration waits for ever
SpecTraceFair == SpecTrace /\ WF_vars(NextTrace)

----------------------------------------------------------------------------
(* Reference notions for the aligner's claims                               *)

Range(s) == {s[k] : k \in 1..Len(s)}

\* the score of one alignment column under the scoring parameters
ColumnScore(a, b, ma, mi, g) ==
    IF a = GAP \/ b = GAP THEN g ELSE IF a = b THEN ma ELSE mi

\* the score of columns k.. of an alignment
RECURSIVE RescoreFrom(_, _, _, _, _, _)
RescoreFrom(r1, r2, k, ma, mi, g) ==
    IF k > Len(r1) \/ k > Len(r2) THEN 0
    ELSE ColumnScore(r1[k], r2[k], ma, mi, g) + RescoreFrom(r1, r2, k + 1, ma, mi, g)

\* the score of an alignment, column by column
Rescore(r1, r2, ma, mi, g) == RescoreFrom(r1, r2, 1, ma, mi, g)

\* every row of length L over the residues and GAP that ungaps to s
RECURSIVE GappedRows(_, _)
GappedRows(s, L) ==
    IF Len(s) > L THEN {}
    ELSE IF L = 0 THEN {<<>>}
    ELSE {<<GAP>> \o r : r \in GappedRows(s, L - 1)}
         \cup (IF s = <<>> THEN {}
               ELSE {<<Head(s)>> \o r : r \in GappedRows(Tail(s), L - 1)})

\* every row of the length of r1 that ungaps to b and holds a residue in
\* each column where r1 holds a gap
RECURSIVE PartnerRows(_, _)
PartnerRows(b, r1) ==
    IF r1 = <<>> THEN (IF b = <<>> THEN {<<>>} ELSE {})
    ELSE (IF b = <<>> THEN {}
          ELSE {<<Head(b)>> \o r : r \in PartnerRows(Tail(b), Tail(r1))})
         \cup (IF Head(r1) = GAP THEN {}
               ELSE {<<GAP>> \o r : r \in PartnerRows(b, Tail(r1))})

\* every global alignment of a and b: two rows of one length that ungap to a
\* and to b, no column holding two gaps
AllAlignments(a, b) ==
    UNION { UNION { {<<r1, r2>> : r2 \in PartnerRows(b, r1)}
                    : r1 \in GappedRows(a, L) }
            : L \in Max2(Len(a), Len(b))..(Len(a) + Len(b)) }

\* the scores of the global alignments of a and b that begin with columns
\* pairing the first i residues of a with the first j of b and scoring acc
\* so far: each is completed column by column (a residue of each, a residue
\* of a over a gap, a gap over a residue of b)
RECURSIVE ScoresBeyond(_, _, _, _, _, _, _, _)
ScoresBeyond(a, b, i, j, acc, ma, mi, g) ==
    IF i = Len(a) /\ j = Len(b) THEN {acc}
    ELSE (IF i < Len(a) /\ j < Len(b)
          THEN ScoresBeyond(a, b, i + 1, j + 1,
                            acc + ColumnScore(a[i + 1], b[j + 1], ma, mi, g), ma, mi, g)
          ELSE {})
         \cup (IF i < Len(a)
               THEN ScoresBeyond(a, b, i + 1, j,
                                 acc + ColumnScore(a[i + 1], GAP, ma, mi, g), ma, mi, g)
               ELSE {})
         \cup (IF j < Len(b)
               THEN ScoresBeyond(a, b, i, j + 1,
                                 acc + ColumnScore(GAP, b[j + 1], ma, mi, g), ma, mi, g)
               ELSE {})

\* the scores of all global alignments of a and b
AllScores(a, b, ma, mi, g) == ScoresBeyond(a, b, 0, 0, 0, ma, mi, g)

Gaps(k) == [x \in 1..k |-> GAP]

CalledAligner == pc = "aligned" /\ fn \in {"simple_align", "needleman_wunsch"}

----------------------------------------------------------------------------
(* C1: for non-empty arguments, deleting the gaps of the first returned    *)
(* row gives seq1 and deleting the gaps of the second gives seq2.          *)
C1_RoundTrip ==
    (CalledAligner /\ seq1 # <<>> /\ seq2 # <<>>)
        => /\ raised = "none"
           /\ Ungap(aligned1) = seq1
           /\ Ungap(aligned2) = seq2

\* a call on non-empty arguments returned rows with a gap in each
C1_Witness ==
    /\ CalledAligner
    /\ seq1 # <<>> /\ seq2 # <<>>
    /\ GAP \in Range(aligned1)
    /\ GAP \in Range(aligned2)
    /\ aligned1 # Reverse(aligned1)

(* C2: for non-empty arguments, re-scoring the returned rows column by     *)
(* column gives the corner cell score[m][n] of the filled matrix.          *)
C2_ScoreConsistent ==
    (CalledAligner /\ seq1 # <<>> /\ seq2 # <<>>)
        => Rescore(aligned1, aligned2, match, mismatch, gap)
            = Cell(score, Len(seq1), Len(seq2))

\* returned rows holding a match column, a mismatch column and a gap column
C2_Witness ==
    /\ CalledAligner
    /\ seq1 # <<>> /\ seq2 # <<>>
    /\ \E k \in 1..Len(aligned1) : aligned1[k] = aligned2[k]
    /\ \E k \in 1..Len(aligned1) :
          aligned1[k] # aligned2[k] /\ aligned1[k] # GAP /\ aligned2[k] # GAP
    /\ \E k \in 1..Len(aligned1) : aligned1[k] = GAP \/ aligned2[k] = GAP

(* C3: the corner cell score[m][n] is the largest score any global         *)
(* alignment of seq1 and seq2 has, and no global alignment scores higher   *)
(* than the returned rows.                                                 *)
C3_Optimal ==
    CalledAligner =>
        LET scores == AllScores(seq1, seq2, match, mismatch, gap)
            corner == Cell(score, Len(seq1), Len(seq2))
            got == Rescore(aligned1, aligned2, match, mismatch, gap)
        IN  /\ corner \in scores
            /\ \A x \in scores : x <= corner /\ x <= got

\* a call whose arguments have alignments scoring below, and several at, the
\* corner; the scores compared are those of the rows of AllAlignments
C3_Witness ==
    /\ CalledAligner
    /\ Len(seq1) >= 3 /\ Len(seq2) >= 2
    /\ LET all == AllAlignments(seq1, seq2)
           corner == Cell(score, Len(seq1), Len(seq2))
       IN  /\ AllScores(seq1, seq2, match, mismatch, gap)
                = {Rescore(x[1], x[2], match, mismatch, gap) : x \in all}
           /\ \E x \in all : Rescore(x[1], x[2], match, mismatch, gap) < corner
           /\ \E x, y \in all :
                /\ x # y
                /\ Rescore(x[1], x[2], match, mismatch, gap) = corner
                /\ Rescore(y[1], y[2], match, mismatch, gap) = corner

(* C4 as stated: a call with an empty seq1 or seq2 fails with InvalidInput *)
(* and returns no alignment.                                               *)
C4_EmptyFails ==
    (CalledAligner /\ (seq1 = <<>> \/ seq2 = <<>>))
        => raised = "InvalidInput"

(* C4 as the code has it: a call with an empty seq1 or seq2 raises nothing *)
(* and returns the other sequence against a row of gaps of its length.     *)
C4_EmptyReturnsGaps ==
    /\ (CalledAligner /\ seq1 = <<>>)
          => raised = "none" /\ aligned1 = Gaps(Len(seq2)) /\ aligned2 = seq2
    /\ (CalledAligner /\ seq2 = <<>>)
          => raised = "none" /\ aligned1 = seq1 /\ aligned2 = Gaps(Len(seq1))

\* a call with one empty and one non-empty argument has returned
C4_Witness ==
    /\ CalledAligner
    /\ fn = "needleman_wunsch"
    /\ seq2 = <<>> /\ Len(seq1) >= 2
    /\ aligned2 = Gaps(Len(seq1))

----------------------------------------------------------------------------
(* Reference counts over the columns two rows share                        *)

EqualResidues(a, b) == a = b /\ a # GAP /\ b # GAP
BothResidues(a, b) == a # GAP /\ b # GAP

\* the number of columns k.. of r1 over r2 that hold two equal residues
RECURSIVE CountEqual(_, _, _)
CountEqual(r1, r2, k) ==
    IF k > Len(r1) \/ k > Len(r2) THEN 0
    ELSE (IF EqualResidues(r1[k], r2[k]) THEN 1 ELSE 0) + CountEqual(r1, r2, k + 1)

\* the number of columns k.. of r1 over r2 that hold two residues
RECURSIVE CountBoth(_, _, _)
CountBoth(r1, r2, k) ==
    IF k > Len(r1) \/ k > Len(r2) THEN 0
    ELSE (IF BothResidues(r1[k], r2[k]) THEN 1 ELSE 0) + CountBoth(r1, r2, k + 1)

\* the number of residues of a row
RECURSIVE ResidueCount(_)
ResidueCount(row) ==
    IF row = <<>> THEN 0
    ELSE (IF Head(row) # GAP THEN 1 ELSE 0) + ResidueCount(Tail(row))

\* matches out of length, in percent; 0 when the length is 0
Percent(matches, length) == IF length = 0 THEN Zero ELSE Frac(100 * matches, length)

AfterIdentity == pc \in {"identity_ga", "identity_sg", "identity_cbc"}

\* two rows of one length, no column holding two gaps
WellFormed(r1, r2) ==
    /\ Len(r1) = Len(r2)
    /\ \A k \in 1..Len(r1) : ~(r1[k] = GAP /\ r2[k] = GAP)

(* C5 as stated: on an alignment, every identity routine returns the       *)
(* columns holding two equal residues out of the columns holding two       *)
(* residues (in percent), 0 when there is no such column.                  *)
C5_OneIdentity ==
    (AfterIdentity /\ WellFormed(aligned1, aligned2)) =>
        FracEq(identity,
               Percent(CountEqual(aligned1, aligned2, 1),
                       CountBoth(aligned1, aligned2, 1)))

(* C5 as the code has it: the three routines count the same matches and    *)
(* divide by three different lengths: the columns holding two residues     *)
(* (check_binding_conservation), the longer of the two ungapped rows       *)
(* (generate_alignment), the ungapped first row (setup_gyrase_model); each *)
(* returns 0 when its length is 0.                                         *)
C5_ThreeIdentities ==
    LET equal == CountEqual(aligned1, aligned2, 1)
    IN  /\ pc = "identity_cbc" =>
              FracEq(identity,
                     Percent(equal, CountBoth(aligned1, aligned2, 1)))
        /\ pc = "identity_ga" =>
              FracEq(identity,
                     Percent(equal, Max2(ResidueCount(aligned1), ResidueCount(aligned2))))
        /\ pc = "identity_sg" =>
              FracEq(identity, Percent(equal, ResidueCount(aligned1)))
        /\ AfterIdentity => identity.den > 0

\* calculate_identity of generate_alignment ran on an alignment with a match
\* and a gap in the shorter row, where its length is not the paired columns
C5_Witness ==
    /\ pc = "identity_ga"
    /\ WellFormed(aligned1, aligned2)
    /\ CountEqual(aligned1, aligned2, 1) > 0
    /\ ResidueCount(aligned1) < ResidueCount(aligned2)
    /\ CountBoth(aligned1, aligned2, 1) < ResidueCount(aligned2)
    /\ ~FracEq(identity, Percent(CountEqual(aligned1, aligned2, 1),
                                 CountBoth(aligned1, aligned2, 1)))

(* C6: "ACGT" against "AGT" under match 2, mismatch -1, gap -2 comes back  *)
(* as ACGT over A-GT, one gap, opposite the C; its identity is 75 percent. *)
C6_Scenario ==
    (/\ pc # "start"
     /\ seq1 = ScenarioA /\ seq2 = ScenarioB
     /\ match = 2 /\ mismatch = -1 /\ gap = -2)
        => /\ raised = "none"
           /\ aligned1 = <<"A", "C", "G", "T">>
           /\ aligned2 = <<"A", GAP, "G", "T">>
           /\ pc \in {"identity_ga", "identity_sg"} => FracEq(identity, Frac(75, 1))

\* calculate_identity of generate_alignment ran on simple_align("ACGT", "AGT")
C6_Witness ==
    /\ pc = "identity_ga"
    /\ fn = "simple_align"
    /\ seq1 = ScenarioA /\ seq2 = ScenarioB
    /\ identity = Frac(300, 4)

ResiduesUpTo(row, k) == Cardinality({x \in 1..k : row[x] # GAP})

PairedColumns(T, S) == {k \in 1..Min2(Len(T), Len(S)) : T[k] # GAP /\ S[k] # GAP}

C8_Correspondence ==
    pc = "mapped" =>
        LET T == aligned1
            S == aligned2
        IN  /\ DOMAIN mapping = {ResiduesUpTo(T, k) : k \in PairedColumns(T, S)}
            /\ \A k \in PairedColumns(T, S) :
                  /\ mapping[ResiduesUpTo(T, k)].template_pos = ResiduesUpTo(S, k)
                  /\ mapping[ResiduesUpTo(T, k)].target_res = T[k]
                  /\ mapping[ResiduesUpTo(T, k)].template_res = S[k]

\* rows with a gap in the target, a gap in the template and an entry p -> q, p # q
C8_Witness ==
    /\ pc = "mapped"
    /\ Len(aligned1) = Len(aligned2)
    /\ GAP \in Range(aligned1)
    /\ GAP \in Range(aligned2)
    /\ \E p \in DOMAIN mapping : mapping[p].template_pos # p

----------------------------------------------------------------------------
(* Reference notions for the contact claims                                *)

\* the labelled points of a chain whose atom name is among names
PointSet(chain, names) ==
    {[chain |-> chain.chain, res |-> chain.residues[r].res,
      atom |-> chain.residues[r].atoms[a].name, xyz |-> chain.residues[r].atoms[a].xyz] :
        <<r, a>> \in {x \in (1..Len(chain.residues)) \X (1..3) :
                        /\ x[2] <= Len(chain.residues[x[1]].atoms)
                        /\ chain.residues[x[1]].atoms[x[2]].name \in names}}

\* the square of the Euclidean distance of two points
SquaredDistance(p, q) ==
    (p[1] - q[1]) * (p[1] - q[1]) + (p[2] - q[2]) * (p[2] - q[2])
        + (p[3] - q[3]) * (p[3] - q[3])

\* the distance of p and q is strictly less than c
StrictlyWithin(p, q, c) == c > 0 /\ SquaredDistance(p, q) < c * c

\* the two point sets a scan compares: the first two chains, filtered
SetA(names) == IF Len(coords) < 2 THEN {} ELSE PointSet(coords[1], names)
SetB(names) == IF Len(coords) < 2 THEN {} ELSE PointSet(coords[2], names)

Triple(contact) ==
    <<<<contact.chain1, contact.res1, contact.atom1>>,
      <<contact.chain2, contact.res2, contact.atom2>>, contact.distance>>

(* C9: the contacts returned are, each once, the triples (label(a),        *)
(* label(b), d(a, b)) of exactly the pairs a of the first point set and b  *)
(* of the second whose distance is strictly less than the cutoff; the      *)
(* residues returned by identify_interface_residues are exactly those of   *)
(* such pairs of CA atoms.                                                 *)
C9_ExactContacts ==
    /\ pc \in {"run1", "run2"} =>
          /\ {Triple(contacts[k]) : k \in 1..Len(contacts)}
                = {<<<<a.chain, a.res, a.atom>>, <<b.chain, b.res, b.atom>>,
                     Root(SquaredDistance(a.xyz, b.xyz))>> :
                     <<a, b>> \in {x \in SetA(BackboneAndCB) \X SetB(BackboneAndCB) :
                                    StrictlyWithin(x[1].xyz, x[2].xyz, distance_cutoff)}}
          /\ \A k, l \in 1..Len(contacts) :
                Triple(contacts[k]) = Triple(contacts[l]) => k = l
    /\ pc = "identified" =>
          LET close == {x \in SetA({"CA"}) \X SetB({"CA"}) :
                            StrictlyWithin(x[1].xyz, x[2].xyz, distance_cutoff)}
          IN  /\ Range(interface.a) = {x[1].res : x \in close}
              /\ Range(interface.b) = {x[2].res : x \in close}

\* a scan that kept a pair, dropped a pair at exactly the cutoff and dropped
\* a pair beyond it
C9_Witness ==
    /\ pc = "run1"
    /\ contacts # <<>>
    /\ \E a \in SetA(BackboneAndCB), b \in SetB(BackboneAndCB) :
          SquaredDistance(a.xyz, b.xyz) = distance_cutoff * distance_cutoff
    /\ \E a \in SetA(BackboneAndCB), b \in SetB(BackboneAndCB) :
          SquaredDistance(a.xyz, b.xyz) > distance_cutoff * distance_cutoff

(* C10: of two runs on the same structure, the one with the larger cutoff  *)
(* returns every contact and every interface constraint of the other,      *)
(* labels and distance unchanged.                                          *)
C10_Monotonic ==
    (pc = "run2" /\ earlier.distance_cutoff < distance_cutoff)
        => /\ Range(earlier.contacts) \subseteq Range(contacts)
           /\ Range(earlier.interface_constraints) \subseteq Range(interface_constraints)

\* a second run with a larger cutoff that returned more than a non-empty first
C10_Witness ==
    /\ pc = "run2"
    /\ earlier.distance_cutoff < distance_cutoff
    /\ earlier.contacts # <<>>
    /\ earlier.interface_constraints # <<>>
    /\ Len(contacts) > Len(earlier.contacts)
    /\ Len(interface_constraints) > Len(earlier.interface_constraints)

(* C11 as stated: a scan run with a cutoff of zero or less fails with      *)
(* InvalidCutoff instead of returning a contact set.                       *)
C11_InvalidCutoff ==
    (pc \in {"run1", "run2"} /\ distance_cutoff <= 0) => raised = "InvalidCutoff"

(* C12: under a positive cutoff a scan whose first or second point set is  *)
(* empty (fewer than two chains, or a chain without an atom that passes    *)
(* the label filter) returns an empty list and raises nothing; so do the   *)
(* interface constraints when a chain holds no CA atom.                    *)
C12_EmptySets ==
    (pc \in {"run1", "run2"} /\ distance_cutoff > 0) =>
        /\ (SetA(BackboneAndCB) = {} \/ SetB(BackboneAndCB) = {})
              => contacts = <<>> /\ raised = "none"
        /\ (SetA({"CA"}) = {} \/ SetB({"CA"}) = {})
              => interface_constraints = <<>> /\ raised = "none"

\* a run on two chains, the second holding only an atom the filter drops,
\* which lies within the cutoff of an atom of the first
C12_Witness ==
    /\ pc = "run1"
    /\ distance_cutoff = DefaultCutoff
    /\ Len(coords) = 2
    /\ SetA(BackboneAndCB) # {}
    /\ SetB(BackboneAndCB) = {}
    /\ \E a \in SetA(BackboneAndCB), r \in 1..Len(coords[2].residues) :
          \E k \in 1..Len(coords[2].residues[r].atoms) :
              StrictlyWithin(a.xyz, coords[2].residues[r].atoms[k].xyz, distance_cutoff)
    /\ contacts = <<>>

(* C13: every interface constraint carries the tighter spread (1.00) when *)
(* the distance of its two CA atoms is strictly less than the threshold    *)
(* (5.0) and the looser one (2.00) when it is at or above the threshold    *)
(* and below the cutoff; the same pair gets the same spread under any      *)
(* cutoff that keeps it.                                                   *)
C13_TwoBands ==
    pc \in {"run1", "run2"} =>
        /\ \A a \in SetA({"CA"}), b \in SetB({"CA"}) :
              StrictlyWithin(a.xyz, b.xyz, distance_cutoff) =>
                  /\ \E k \in 1..Len(interface_constraints) :
                        /\ interface_constraints[k].res1 = a.res
                        /\ interface_constraints[k].res2 = b.res
                  /\ \A k \in 1..Len(interface_constraints) :
                        (/\ interface_constraints[k].res1 = a.res
                         /\ interface_constraints[k].res2 = b.res)
                            => interface_constraints[k].sd
                                 = IF SquaredDistance(a.xyz, b.xyz)
                                        < NearThreshold * NearThreshold
                                   THEN 100 ELSE 200
        /\ \A k \in 1..Len(interface_constraints) :
              \A l \in 1..Len(earlier.interface_constraints) :
                  (/\ interface_constraints[k].res1 = earlier.interface_constraints[l].res1
                   /\ interface_constraints[k].res2 = earlier.interface_constraints[l].res2)
                      => interface_constraints[k].sd = earlier.interface_constraints[l].sd

\* a second run that kept a pair below the threshold and a pair exactly at it,
\* both kept by the first run under another cutoff
C13_Witness ==
    /\ pc = "run2"
    /\ distance_cutoff # earlier.distance_cutoff
    /\ Len(earlier.interface_constraints) >= 1
    /\ \E k, l \in 1..Len(interface_constraints) :
          /\ interface_constraints[k].sd = 100
          /\ interface_constraints[l].sd = 200
    /\ \E a \in SetA({"CA"}), b \in SetB({"CA"}) :
          /\ SquaredDistance(a.xyz, b.xyz) = NearThreshold * NearThreshold
          /\ StrictlyWithin(a.xyz, b.xyz, distance_cutoff)

----------------------------------------------------------------------------
(* Reference notions for the superposition claims                          *)

Measured == pc = "measured"
Fitted == pc = "fitted"

(* C14 as stated: calculate_rmsd of two arrays of different lengths fails *)
(* and returns no number, also when one of them has exactly one row.       *)
C14_LengthMismatch ==
    (Measured /\ Len(P.rows) # Len(Q.rows)) => raised # "none"

(* C15 as stated: the fit of two arrays of different lengths fails, in     *)
(* kabsch_align and in extract_transformation alike; no transformation is    *)
(* computed from the rows the two arrays share.                              *)
C15_LengthMismatch ==
    (Fitted /\ Len(P.rows) # Len(Q.rows)) => raised # "none"

(* C16 as stated: the fit of fewer than three pairs of points (0, 1 or 2)   *)
(* fails and returns no transformation.                                      *)
C16_InsufficientPoints ==
    (Fitted /\ Len(P.rows) = Len(Q.rows) /\ Len(P.rows) < 3) => raised # "none"

Applied == pc = "applied"

\* the field holds the thousandth nearest to 1000 * (R @ coord + t)[k], where
\* coord is the record's coordinate fields in thousandths
NearestField(field, xyz, k) ==
    LET exact == tvec.den * MatVec(R.num, xyz)[k] + 1000 * R.den * tvec.num[k]
        den == R.den * tvec.den
    IN  2 * Abs(den * field - exact) <= den

\* the record new is the record old with only its coordinate fields replaced,
\* by R @ coord + t
OnlyMoved(old, new) ==
    /\ new.record = old.record /\ new.serial = old.serial /\ new.name = old.name
    /\ new.chain = old.chain /\ new.resid = old.resid /\ new.tail = old.tail
    /\ NearestField(new.x, <<old.x, old.y, old.z>>, 1)
    /\ NearestField(new.y, <<old.x, old.y, old.z>>, 2)
    /\ NearestField(new.z, <<old.x, old.y, old.z>>, 3)

(* C17: apply_transform and apply_transformation return one record for each *)
(* record given, in the same order; a record that is no ATOM or HETATM       *)
(* comes back as it was, an atom record comes back with every field but x,   *)
(* y, z as it was and with x, y, z holding R @ coord + t to the three         *)
(* decimals of the field; the list given is as it was before the call.       *)
C17_ApplyKeepsRecords ==
    Applied =>
        /\ Len(transformed) = Len(pdb_lines)
        /\ \A i \in 1..Len(pdb_lines) :
              IF pdb_lines[i].record \in {"ATOM", "HETATM"}
              THEN OnlyMoved(pdb_lines[i], transformed[i])
              ELSE transformed[i] = pdb_lines[i]
        /\ pdb_lines = ModelFile(P.rows)

\* a file of atoms and other records was moved by a turn and a shift
C17_Witness ==
    /\ Applied
    /\ Len(P.rows) >= 3
    /\ R # NoRotation
    /\ tvec # NoTranslation
    /\ \E i \in 1..Len(pdb_lines) : pdb_lines[i].record = "TER"
    /\ \E i \in 1..Len(pdb_lines) :
          /\ pdb_lines[i].record = "HETATM"
          /\ <<transformed[i].x, transformed[i].y, transformed[i].z>>
                # <<pdb_lines[i].x, pdb_lines[i].y, pdb_lines[i].z>>

FitReturned == Fitted /\ raised = "none"

\* a matrix over a denominator is orthonormal with determinant +1
ProperRotation(rot) ==
    /\ MatMul(rot.num, Transpose(rot.num))
          = <<<<rot.den * rot.den, 0, 0>>, <<0, rot.den * rot.den, 0>>,
              <<0, 0, rot.den * rot.den>>>>
    /\ Det(rot.num) = rot.den * rot.den * rot.den

(* C18: the R that kabsch_align and extract_transformation return is        *)
(* orthonormal with determinant +1, never -1, also when the template is a    *)
(* mirror image of the model.                                                *)
C18_ProperRotation ==
    FitReturned => ProperRotation(R)

\* the template is the mirror image of a model that does not lie in a plane,
\* the product Vt.T @ U.T had determinant -1, and the last row of Vt was negated
C18_Witness ==
    /\ FitReturned
    /\ Len(P.rows) >= 4
    /\ Q.rows = Placed(Placement(MirrorX, ZeroVec), P.rows)
    /\ \E f \in svd(Covariance(P, Q)) :
          /\ f.S[3].num > 0
          /\ Det(MatMulFactors(f.Vt, f.U).num) < 0
          /\ R = MatMulFactors(NegateLastRow(f.Vt), f.U)

Checked == pc = "checked"

\* the template is the model turned by a proper rotation and shifted
ProperlyPlaced ==
    \E g \in Placements : g.m \in ProperRotations /\ Q.rows = Placed(g, P.rows)

\* the model and the template of the scenario: three points, a quarter turn
\* about Z and a shift by (5, 0, 0)
ScenarioPlaced ==
    /\ P = Array(1, <<<<0, 0, 0>>, <<1, 0, 0>>, <<0, 1, 0>>>>)
    /\ Q = Array(1, <<<<5, 0, 0>>, <<5, 1, 0>>, <<4, 0, 0>>>>)

RECURSIVE SquaredDistancesFrom(_, _, _, _, _)
SquaredDistancesFrom(rot, trans, a, b, k) ==
    IF k > Len(a.rows) \/ k > Len(b.rows) THEN 0
    ELSE LET off == VecSub(VecAdd(VecScale(trans.den * b.den, MatVec(rot.num, a.rows[k])),
                                  VecScale(rot.den * a.den * b.den, trans.num)),
                           VecScale(rot.den * a.den * trans.den, b.rows[k]))
         IN  Dot(off, off) + SquaredDistancesFrom(rot, trans, a, b, k + 1)

\* the sum of squared distances between the moved model points and the
\* template points they are paired with, as a fraction
SquaredDistances(rot, trans, a, b) ==
    LET l == rot.den * a.den * trans.den * b.den
    IN  Frac(SquaredDistancesFrom(rot, trans, a, b, 1), l * l)

FracLeq(x, y) == x.num * y.den <= y.num * x.den

\* the rigid transformations the fit is measured against: the 24 rotations
\* that map the axes onto one another, each with the translation that brings
\* the centroids together and with the translation the fit returned
AxisRotations ==
    {Rational33(f, 1) : f \in {g \in Frames : Norms(g) = <<1, 1, 1>> /\ Det(g) = 1}}

PairedRows(a, b) == Min2(Len(a.rows), Len(b.rows))

Competitors ==
    LET k == PairedRows(P, Q)
    IN  UNION {{[R |-> rot, t |-> Translation(Truncated(P, k), Truncated(Q, k), rot)],
                [R |-> rot, t |-> tvec]} : rot \in AxisRotations}

(* C20: the R, t that kabsch_align and extract_transformation return give a *)
(* sum of squared distances between the moved model points and the template  *)
(* points paired with them that is no larger than that of any other proper   *)
(* rotation with a translation.                                              *)
C20_LeastSquares ==
    FitReturned =>
        \A c \in Competitors :
            FracLeq(SquaredDistances(R, tvec, P, Q), SquaredDistances(c.R, c.t, P, Q))

\* a template that no rotation brings the model onto (a mirror image or a
\* stretched copy of a model that does not lie in a plane): the fit leaves a
\* distance, and some rotation leaves a larger one
C20_Witness ==
    /\ FitReturned
    /\ Len(P.rows) >= 4
    /\ Len(Q.rows) = Len(P.rows)
    /\ SquaredDistances(R, tvec, P, Q).num > 0
    /\ \E c \in Competitors :
          ~FracLeq(SquaredDistances(c.R, c.t, P, Q), SquaredDistances(R, tvec, P, Q))

(* C21: calculate_rmsd of a non-empty array against itself returns exactly  *)
(* 0 and raises nothing.                                                     *)
C21_RmsdOfSelf ==
    (Measured /\ Q = P /\ P.rows # <<>>) => raised = "none" /\ rmsd.root_num = 0

\* an array of three rows or more, not all at the origin, was measured
\* against itself
C21_Witness ==
    /\ Measured
    /\ Q = P
    /\ Len(P.rows) >= 3
    /\ \E i \in 1..Len(P.rows) : P.rows[i] # ZeroVec
    /\ rmsd = RootOf(0, Len(P.rows))

\* what the call of a job returns when no other call runs beside it
Alone(job) ==
    IF job.fn = "simple_align"
    THEN {AlignResult(simple_align(job.args.seq1, job.args.seq2))}
    ELSE IF job.fn = "kabsch_align"
         THEN {FitResult(r) : r \in kabsch_align(job.args.P, job.args.Q)}
         ELSE {ScanResult(find_interface_contacts(job.args.coords,
                                                  job.args.distance_cutoff))}

(* C22: in every interleaving of the steps of calls that run at the same    *)
(* time on arguments of their own, no call changes its arguments, and each   *)
(* call returns what it returns when run alone.                              *)
C22_Independent ==
    \A t \in DOMAIN threads :
        /\ threads[t].args = threads[t].job.args
        /\ threads[t].at = "returned" => threads[t].result \in Alone(threads[t].job)

\* two calls of simple_align on different sequences have both returned
C22_Witness ==
    /\ pc = "threads"
    /\ \E t, u \in DOMAIN threads :
          /\ t # u
          /\ threads[t].job.fn = "simple_align" /\ threads[u].job.fn = "simple_align"
          /\ threads[t].job # threads[u].job
          /\ threads[t].at = "returned" /\ threads[u].at = "returned"
          /\ threads[t].result # threads[u].result

----------------------------------------------------------------------------
(* Reference notions for the traceback claims                               *)

\* The cell the traceback was at when it emitted column k of the returned
\* rows: as many residues of each sequence were still to be emitted as the
\* rows hold up to column k.
CellAt(k) == <<ResiduesUpTo(aligned1, k), ResiduesUpTo(aligned2, k)>>

\* the move that emitted column k
MoveAt(k) ==
    IF aligned1[k] # GAP /\ aligned2[k] # GAP THEN "diagonal"
    ELSE IF aligned2[k] = GAP THEN "up"
    ELSE "left"

\* the move reproduces the value of cell (i, j) of the filled matrix
DiagonalReproduces(i, j) ==
    Cell(score, i, j) = Cell(score, i - 1, j - 1)
                        + (IF seq1[i] = seq2[j] THEN match ELSE mismatch)
UpReproduces(i, j) == Cell(score, i, j) = Cell(score, i - 1, j) + gap
LeftReproduces(i, j) == Cell(score, i, j) = Cell(score, i, j - 1) + gap

AlignerReturned == CalledAligner /\ raised = "none"

\* the columns emitted at a cell with i > 0 and j > 0
InnerColumns == {k \in 1..Len(aligned1) : CellAt(k)[1] > 0 /\ CellAt(k)[2] > 0}

(* C23: at every cell (i, j) with i > 0 and j > 0 that the traceback of      *)
(* simple_align or needleman_wunsch visits, the diagonal move is the one     *)
(* taken exactly when it reproduces score[i][j]; the up move exactly when    *)
(* the diagonal does not and the up move does; the left move exactly when    *)
(* neither does.                                                             *)
C23_TieBreak ==
    AlignerReturned =>
        \A k \in InnerColumns :
            LET i == CellAt(k)[1]
                j == CellAt(k)[2]
            IN  /\ MoveAt(k) = "diagonal" <=> DiagonalReproduces(i, j)
                /\ MoveAt(k) = "up" <=> (~DiagonalReproduces(i, j) /\ UpReproduces(i, j))
                /\ MoveAt(k) = "left" <=>
                      (~DiagonalReproduces(i, j) /\ ~UpReproduces(i, j))

\* a traceback that took the diagonal at a cell the up move reproduces too,
\* and the up move at a cell the left move reproduces too
C23_Witness ==
    /\ AlignerReturned
    /\ \E k \in InnerColumns :
          /\ MoveAt(k) = "diagonal"
          /\ UpReproduces(CellAt(k)[1], CellAt(k)[2])
    /\ \E k \in InnerColumns :
          /\ MoveAt(k) = "up"
          /\ LeftReproduces(CellAt(k)[1], CellAt(k)[2])

\* an iteration of the traceback loop: the loop was running and still is, or
\* has raised
Iteration == pc = "traceback" /\ tb'.iterations = tb.iterations + 1

(* C25: the traceback loop of simple_align and needleman_wunsch starts at   *)
(* (m, n); every iteration makes i + j strictly smaller; i and j are never   *)
(* negative; nothing is raised; the loop is left, at (0, 0), after at least  *)
(* max(m, n) and at most m + n iterations.                                   *)
C25_TracebackEnds ==
    /\ [](tb.i >= 0 /\ tb.j >= 0 /\ raised = "none")
    /\ []((pc = "traceback" /\ tb.iterations = 0) => (tb.i = Len(seq1) /\ tb.j = Len(seq2)))
    /\ [][Iteration => tb'.i + tb'.j < tb.i + tb.j]_vars
    /\ [](pc = "returned" =>
            /\ tb.i = 0 /\ tb.j = 0
            /\ tb.iterations >= Max2(Len(seq1), Len(seq2))
            /\ tb.iterations <= Len(seq1) + Len(seq2))
    /\ <>(pc = "returned")

\* a loop left after more than max(m, n) and fewer than m + n iterations
C25_Witness ==
    /\ pc = "returned"
    /\ Len(seq1) >= 2 /\ Len(seq2) >= 2
    /\ tb.iterations > Max2(Len(seq1), Len(seq2))
    /\ tb.iterations < Len(seq1) + Len(seq2)

(* C26: the two rows returned by either aligner have one length L with     *)
(* max(m, n) <= L <= m + n, and no column holds a gap in both rows.         *)
C26_WellFormed ==
    CalledAligner =>
        /\ raised = "none"
        /\ Len(aligned1) = Len(aligned2)
        /\ Len(aligned1) >= Max2(Len(seq1), Len(seq2))
        /\ Len(aligned1) <= Len(seq1) + Len(seq2)
        /\ \A k \in 1..Len(aligned1) : ~(aligned1[k] = GAP /\ aligned2[k] = GAP)

\* returned rows longer than both arguments and shorter than m + n, with a
\* gap in each row
C26_Witness ==
    /\ CalledAligner
    /\ raised = "none"
    /\ Len(aligned1) > Max2(Len(seq1), Len(seq2))
    /\ Len(aligned1) < Len(seq1) + Len(seq2)
    /\ GAP \in Range(aligned1)
    /\ GAP \in Range(aligned2)

\* needleman_wunsch(seq1, seq2) with match, mismatch and gap left to their
\* defaults
NW_WithDefaults ==
    needleman_wunsch(seq1, seq2, NW_default_match, NW_default_mismatch, NW_default_gap)

(* C27: simple_align(A, B) and needleman_wunsch(A, B) with its default      *)
(* parameters return the same pair of rows (and raise alike).               *)
C27_SameRows ==
    (CalledAligner /\ fn = "simple_align") =>
        /\ raised = NW_WithDefaults.raised
        /\ <<aligned1, aligned2>> = NW_WithDefaults.rows

\* simple_align returned rows with a gap, a match and a mismatch, the same
\* rows as needleman_wunsch returns
C27_Witness ==
    /\ CalledAligner
    /\ fn = "simple_align"
    /\ raised = "none"
    /\ <<aligned1, aligned2>> = NW_WithDefaults.rows
    /\ GAP \in Range(aligned1) \cup Range(aligned2)
    /\ \E k \in 1..Len(aligned1) : aligned1[k] = aligned2[k]
    /\ \E k \in 1..Len(aligned1) :
          aligned1[k] # aligned2[k] /\ aligned1[k] # GAP /\ aligned2[k] # GAP

(* C28: the mapping built by align_residue_mapping is strictly order        *)
(* preserving (p1 < p2 implies q1 < q2 for entries p1 -> q1, p2 -> q2),     *)
(* its keys lie in 1..(number of residues of the target row) and its        *)
(* values in 1..(number of residues of the template row).                   *)
C28_OrderPreserving ==
    pc = "mapped" =>
        /\ \A p1, p2 \in DOMAIN mapping :
              p1 < p2 => mapping[p1].template_pos < mapping[p2].template_pos
        /\ \A p \in DOMAIN mapping :
              /\ p \in 1..Len(Ungap(aligned1))
              /\ mapping[p].template_pos \in 1..Len(Ungap(aligned2))

\* a mapping of two entries, one of them between different positions, built
\* from rows holding a gap
C28_Witness ==
    /\ pc = "mapped"
    /\ Cardinality(DOMAIN mapping) >= 2
    /\ \E p \in DOMAIN mapping : mapping[p].template_pos # p
    /\ GAP \in Range(aligned1) \cup Range(aligned2)

\* a chain after the pre-filter: the atoms named in names, in file order
Filtered(chain, names) ==
    LET Named(x) == x.atom \in names
    IN  SelectSeq(AtomsFrom(chain.residues, 1, 1), Named)

\* the all-pairs scan of two lists of atoms with no test of a name: every
\* pair in the order of the two nested loops, those below the cutoff kept
AllPairsScan(chain_a, chain_b, atoms_a, atoms_b, cutoff) ==
    LET nb == Len(atoms_b)
        pairs == [k \in 1..(Len(atoms_a) * nb) |->
                     <<atoms_a[((k - 1) \div nb) + 1], atoms_b[((k - 1) % nb) + 1]>>]
        Close(x) == StrictlyWithin(x[1].xyz, x[2].xyz, cutoff)
        kept == SelectSeq(pairs, Close)
    IN  [k \in 1..Len(kept) |->
            [chain1 |-> chain_a, res1 |-> kept[k][1].res, atom1 |-> kept[k][1].atom,
             chain2 |-> chain_b, res2 |-> kept[k][2].res, atom2 |-> kept[k][2].atom,
             distance |-> Root(SquaredDistance(kept[k][1].xyz, kept[k][2].xyz))]]

\* the atoms of chain c of the structure that the filter drops
Dropped(c) == Range(Filtered(coords[c], {"CG"}))

(* C24: the contacts returned by find_interface_contacts are those of an    *)
(* all-pairs scan without any filter run on the two chains after the atoms  *)
(* named outside {CA, CB, N, C, O} are removed; no contact names an atom    *)
(* outside that set and no pair of allowed atoms below the cutoff is        *)
(* missing.                                                                 *)
C24_PreFilter ==
    (pc \in {"run1", "run2"} /\ Len(coords) >= 2) =>
        /\ contacts = AllPairsScan(coords[1].chain, coords[2].chain,
                                   Filtered(coords[1], BackboneAndCB),
                                   Filtered(coords[2], BackboneAndCB),
                                   distance_cutoff)
        /\ \A k \in 1..Len(contacts) :
              contacts[k].atom1 \in BackboneAndCB /\ contacts[k].atom2 \in BackboneAndCB
        /\ \A a \in SetA(BackboneAndCB), b \in SetB(BackboneAndCB) :
              StrictlyWithin(a.xyz, b.xyz, distance_cutoff)
                 => \E k \in 1..Len(contacts) :
                       Triple(contacts[k]) = <<<<a.chain, a.res, a.atom>>,
                                               <<b.chain, b.res, b.atom>>,
                                               Root(SquaredDistance(a.xyz, b.xyz))>>

\* a scan that returned contacts of a structure where each chain holds an
\* atom the filter drops lying below the cutoff of an allowed atom of the
\* other chain
C24_Witness ==
    /\ pc = "run1"
    /\ Len(coords) >= 2
    /\ contacts # <<>>
    /\ \E a \in Dropped(1), b \in SetB(BackboneAndCB) :
          StrictlyWithin(a.xyz, b.xyz, distance_cutoff)
    /\ \E a \in SetA(BackboneAndCB), b \in Dropped(2) :
          StrictlyWithin(a.xyz, b.xyz, distance_cutoff)

\* the entries of find_interface_contacts between two CA atoms
CAContacts == {k \in 1..Len(contacts) : contacts[k].atom1 = "CA" /\ contacts[k].atom2 = "CA"}

\* the number of hundredths h and the root dist are one number
SameNumber(h, dist) == h * h = 10000 * dist.root_of

\* h hundredths is the root dist rounded to the nearest hundredth
NearestHundredth(h, dist) ==
    /\ (2 * h - 1) * (2 * h - 1) <= 40000 * dist.root_of
    /\ 40000 * dist.root_of < (2 * h + 1) * (2 * h + 1)

\* the lines of generate_interface_constraints and the CA-CA entries of
\* find_interface_contacts name the same pairs of residues, with distances
\* equal (exact) or equal after rounding
Related(h, dist, exact) ==
    IF exact THEN SameNumber(h, dist) ELSE NearestHundredth(h, dist)

SameTriples(exact) ==
    /\ \A l \in 1..Len(interface_constraints) :
          \E k \in CAContacts :
             /\ contacts[k].res1 = interface_constraints[l].res1
             /\ contacts[k].res2 = interface_constraints[l].res2
             /\ Related(interface_constraints[l].x0, contacts[k].distance, exact)
    /\ \A k \in CAContacts :
          \E l \in 1..Len(interface_constraints) :
             /\ contacts[k].res1 = interface_constraints[l].res1
             /\ contacts[k].res2 = interface_constraints[l].res2
             /\ Related(interface_constraints[l].x0, contacts[k].distance, exact)

(* C29 as stated: for the same coordinates and cutoff the (res1, res2,      *)
(* distance) triples of generate_interface_constraints are those of the     *)
(* entries of find_interface_contacts whose atom1 and atom2 are both CA.    *)
C29_SameTriples == pc \in {"run1", "run2"} => SameTriples(TRUE)

(* C29 amended: the two scans name the same pairs (res1, res2), and the     *)
(* distance of a line of generate_interface_constraints is the distance of  *)
(* the CA-CA entry of find_interface_contacts rounded to the nearest        *)
(* hundredth.                                                               *)
C29_SameTriplesRounded == pc \in {"run1", "run2"} => SameTriples(FALSE)

\* both scans kept a pair of CA atoms whose distance is no whole number of
\* hundredths
C29_Witness ==
    /\ pc = "run1"
    /\ interface_constraints # <<>>
    /\ \E k \in CAContacts :
          \A h \in 0..1000 : ~SameNumber(h, contacts[k].distance)

\* the atom pair a constraint line restrains
AtomPairOf(line) == <<line.atom1, line.res1, line.atom2, line.res2>>

(* C30: after main combines the lines made of the contacts with the CA-CA   *)
(* interface lines and deduplicates them, the list to write holds at most   *)
(* one line for any atom pair (atom1, res1, atom2, res2), under every       *)
(* tolerance and both constraint types.                                     *)
C30_OneLinePerPair ==
    pc \in {"run1", "run2"} =>
        \A x, y \in all_constraints : AtomPairOf(x) = AtomPairOf(y) => x = y

============================================================================
